---------------------------- MODULE Spec2Model ----------------------------
(***************************************************************************)
(* A model of go-mcp-server's request/response delivery layer:             *)
(*   - the message model (mcp.Request, mcp.Response, mcp.ErrorResponse),   *)
(*   - the dispatcher (server.Server.HandleRequest and its handlers),      *)
(*   - the response senders (StdoutSender, HTTPResponseSender,             *)
(*     SSEResponseSender),                                                 *)
(*   - the stdio transport (Stdio.handleMessage, sendParseError),          *)
(*   - the HTTP/SSE transport (handlePost, handleGet, startSSEStream,      *)
(*     SSESession, Stop).                                                  *)
(***************************************************************************)
EXTENDS Integers, Sequences, FiniteSets, TLC

(***************************************************************************)
(* Bounds of the model.                                                    *)
(***************************************************************************)
\* HTTP requests made in one run; each is served by its own goroutine, and
\* they may be in flight at the same time.
MaxConns == 2
\* SSESession objects the transport allocates in one run.
MaxSessions == 2
\* Session ids synthesized from the clock (sessionIDPrefix + UnixNano).
MaxGenIds == 2
\* Calls made on one HTTPResponseSender by concurrent callers.
MaxCallers == 3
\* Sends made through SSEResponseSenders in one run of SpecSession.
MaxEvents == 3
\* Largest Last-Event-ID value a client presents.
MaxLastEventID == 1
\* Lines of standard input in one run of SpecStart.
MaxLines == 2
\* Options given to one call of NewMCPServer.
MaxOpts == 2

(***************************************************************************)
(* Program constants (mcp/tool.go).                                        *)
(***************************************************************************)
JSONRPCVersion == "2.0"
ErrorCodeParseError == -32700
ErrorCodeInvalidRequest == -32600
ErrorCodeMethodNotFound == -32601
ErrorCodeInvalidParams == -32602
ErrorCodeInternalError == -32603
StatusOK == 200
StatusNoContent == 204
StatusBadRequest == 400
sessionIDPrefix == "session_"

(***************************************************************************)
(* JSON values on the wire and Go values after decoding.                   *)
(* A JSON value is [t, v]: t is its JSON type ("absent" for a missing      *)
(* object member), v its text.  Decoding into a Go `any` maps both a       *)
(* missing member and a JSON null to nil; everything else keeps type and   *)
(* value (encoding/json).                                                  *)
(***************************************************************************)
Absent == [t |-> "absent", v |-> ""]
JNull == [t |-> "null", v |-> ""]
JStr(s) == [t |-> "string", v |-> s]
JNum(s) == [t |-> "number", v |-> s]
JArr == [t |-> "array", v |-> "[]"]
JObj == [t |-> "object", v |-> "{}"]
GoNil == [t |-> "nil", v |-> ""]

\* An integer beyond 2^53, the last one a float64 holds exactly.
BigID == "9007199254740993"

\* A JSON number decoded into an `any` becomes a float64 (no UseNumber):
\* strconv.ParseFloat rounds the literal to the nearest float64, and
\* json.Marshal writes the float64 back in its shortest decimal form.  The
\* text kept is that form; 2^53 + 1 rounds to 2^53, and the other numbers of
\* the model (7, 1, -1) are held exactly and written back as they came.
Float64(s) == IF s = BigID THEN "9007199254740992" ELSE s

\* json.Unmarshal of one member into a field of type `any`.
DecodeAny(j) ==
    IF j.t \in {"absent", "null"} THEN GoNil
    ELSE IF j.t = "number" THEN JNum(Float64(j.v))
    ELSE j

\* json.Marshal of a Go `any` without omitempty: nil is written as null.
EncodeAny(g) == IF g = GoNil THEN JNull ELSE g

\* json.Unmarshal of one member into a field of type string: a missing member
\* or null leaves the zero value "", a string is stored, anything else is an
\* UnmarshalTypeError.
StringFieldOK(j) == j.t \in {"absent", "null", "string"}
DecodeString(j) == IF j.t = "string" THEN j.v ELSE ""

(***************************************************************************)
(* params: a JSON value; an object is given by the members the parameter   *)
(* extraction reads (name, uri, arguments).                                *)
(***************************************************************************)
NoParams == [kind |-> "absent", name |-> Absent, uri |-> Absent, arguments |-> Absent]
ScalarParams(k) == [kind |-> k, name |-> Absent, uri |-> Absent, arguments |-> Absent]
ObjParams(n, u, a) == [kind |-> "object", name |-> n, uri |-> u, arguments |-> a]

\* Request.Params after decoding: nil for a missing member or null.
DecodeParams(p) == IF p.kind \in {"absent", "null"} THEN ScalarParams("nil") ELSE p

(***************************************************************************)
(* mcp.Response and mcp.ErrorResponse.                                     *)
(* A message built by fmt.Sprintf is kept as the sequence of its pieces,   *)
(* so that the substituted argument can be found in it.                    *)
(***************************************************************************)
NilResult == [key |-> "", val |-> "nil"]
NilError == [code |-> 0, message |-> <<>>, data |-> GoNil]
NilResponse == [ID |-> GoNil, Result |-> NilResult, Error |-> NilError]

ErrorResponse(code, message, data) ==
    [code |-> code, message |-> message, data |-> data]

Response(id, result, error) == [ID |-> id, Result |-> result, Error |-> error]

\* Values a handler returns that encoding/json cannot marshal (a channel, a
\* func or a NaN inside a map[string]any such as InputSchema.Properties).
Unencodable == "unencodable"

\* json.Marshal succeeds on a Response unless its result holds such a value.
CanMarshal(response) == response.Result.val # Unencodable

\* json.Marshal of a Response: id is always written, result and error carry
\* omitempty, so each is written iff it is not nil.
Marshal(response) ==
    [id |-> EncodeAny(response.ID),
     hasResult |-> response.Result # NilResult,
     result |-> response.Result,
     hasError |-> response.Error # NilError,
     error |-> response.Error]

(***************************************************************************)
(* mcp.Request after decoding.                                             *)
(***************************************************************************)
Request(jsonrpc, method, id, params) ==
    [JSONRPC |-> jsonrpc, Method |-> method, ID |-> id, Params |-> params]

(***************************************************************************)
(* The external handlers (mcp.ToolHandler, ResourceHandler, PromptHandler) *)
(* are collaborators: each invocation returns either a value or an error.  *)
(* An outcome is [ok, val, err].                                           *)
(***************************************************************************)
HandlerOK(v) == [ok |-> TRUE, val |-> v, err |-> ""]
HandlerErr(e) == [ok |-> FALSE, val |-> "", err |-> e]
NoOutcome == [ok |-> FALSE, val |-> "", err |-> ""]

\* One invocation of an external handler, with the typed parameters it got.
Call(fn, name, uri, args) == [fn |-> fn, name |-> name, uri |-> uri, args |-> args]

(***************************************************************************)
(* The dispatcher's sends.  Server.sendResponse builds the Response and    *)
(* hands it to ResponseSender.SendResponse; Server.sendError hands its     *)
(* arguments to ResponseSender.SendError.                                  *)
(***************************************************************************)
sendResponse(id, result) ==
    [op |-> "SendResponse", response |-> Response(id, result, NilError),
     id |-> id, code |-> 0, message |-> <<>>, data |-> GoNil]

sendError(id, code, message, data) ==
    [op |-> "SendError", response |-> NilResponse,
     id |-> id, code |-> code, message |-> message, data |-> data]

\* What one run of a dispatcher handler does: the external calls it makes
\* and the sends it makes, in order.
Outcome(handler, calls, sends) ==
    [handler |-> handler, calls |-> calls, sends |-> sends]

(***************************************************************************)
(* Parameter extraction.                                                   *)
(***************************************************************************)
ParseOK(name, uri, args) == [ok |-> TRUE, name |-> name, uri |-> uri, args |-> args, err |-> ""]
ParseErr(e) == [ok |-> FALSE, name |-> "", uri |-> "", args |-> "", err |-> e]

\* `arguments` is taken only when it is an object; otherwise an empty map.
ArgsOf(params) ==
    IF params.arguments.t = "object" THEN params.arguments.v ELSE "{}"

parseToolCallParams(params) ==
    IF params.kind = "nil" THEN ParseErr("params cannot be nil")
    ELSE IF params.kind # "object" THEN ParseErr("params must be an object")
    ELSE IF params.name.t # "string"
         THEN ParseErr("name parameter is required and must be a string")
    ELSE ParseOK(params.name.v, "", ArgsOf(params))

\* A faulty parseResourceParams: the uri is read without the type assertion,
\* so a missing or mistyped uri becomes the empty string.
parseResourceParams_Lenient(params) ==
    IF params.kind = "nil" THEN ParseErr("params cannot be nil")
    ELSE IF params.kind # "object" THEN ParseErr("params must be an object")
    ELSE ParseOK("", DecodeString(params.uri), "")

parseResourceParams(params) ==
    IF params.kind = "nil" THEN ParseErr("params cannot be nil")
    ELSE IF params.kind # "object" THEN ParseErr("params must be an object")
    ELSE IF params.uri.t # "string"
         THEN ParseErr("uri parameter is required and must be a string")
    ELSE ParseOK("", params.uri.v, "")

parsePromptParams(params) ==
    IF params.kind = "nil" THEN ParseErr("params cannot be nil")
    ELSE IF params.kind # "object" THEN ParseErr("params must be an object")
    ELSE IF params.name.t # "string"
         THEN ParseErr("name parameter is required and must be a string")
    ELSE ParseOK(params.name.v, "", ArgsOf(params))

(***************************************************************************)
(* Request handlers of the dispatcher.  `o` is the outcome of the external *)
(* handler, should the handler be invoked.                                 *)
(***************************************************************************)
Initialize == [key |-> "", val |-> "InitializeResponse"]

handleInitialize(id) ==
    Outcome("handleInitialize", <<>>, <<sendResponse(id, Initialize)>>)

\* A faulty list handler: the return after sendError is missing, so a failed
\* listing is answered with the error and then with a result.
ListHandler_FallsThrough(handler, fn, key, failed, id, o) ==
    IF ~o.ok
    THEN Outcome(handler, <<Call(fn, "", "", "")>>,
                 <<sendError(id, ErrorCodeInternalError, <<failed>>, JStr(o.err)),
                   sendResponse(id, [key |-> key, val |-> o.val])>>)
    ELSE Outcome(handler, <<Call(fn, "", "", "")>>,
                 <<sendResponse(id, [key |-> key, val |-> o.val])>>)

\* The four list handlers: invoke, wrap the slice under a fixed key.
ListHandler(handler, fn, key, failed, id, o) ==
    IF ~o.ok
    THEN Outcome(handler, <<Call(fn, "", "", "")>>,
                 <<sendError(id, ErrorCodeInternalError, <<failed>>, JStr(o.err))>>)
    ELSE Outcome(handler, <<Call(fn, "", "", "")>>,
                 <<sendResponse(id, [key |-> key, val |-> o.val])>>)

handleToolsList(id, o) ==
    ListHandler("handleToolsList", "ListTools", "tools", "Failed to list tools", id, o)

handleResourcesList(id, o) ==
    ListHandler("handleResourcesList", "ListResources", "resources",
                "Failed to list resources", id, o)

handleResourceTemplatesList(id, o) ==
    ListHandler("handleResourceTemplatesList", "ListResourceTemplates",
                "resourceTemplates", "Failed to list resource templates", id, o)

handlePromptsList(id, o) ==
    ListHandler("handlePromptsList", "ListPrompts", "prompts", "Failed to list prompts", id, o)

\* A faulty handleToolsCall: a failed tool call is reported as an internal
\* error, the way the list handlers report theirs.
handleToolsCall_InternalError(id, req, o) ==
    LET params == parseToolCallParams(req.Params) IN
    IF ~params.ok
    THEN Outcome("handleToolsCall", <<>>,
                 <<sendError(id, ErrorCodeInvalidParams,
                             <<"Invalid tool call parameters">>, JStr(params.err))>>)
    ELSE IF ~o.ok
    THEN Outcome("handleToolsCall", <<Call("CallTool", params.name, "", params.args)>>,
                 <<sendError(id, ErrorCodeInternalError,
                             <<"Tool call failed">>, JStr(o.err))>>)
    ELSE Outcome("handleToolsCall", <<Call("CallTool", params.name, "", params.args)>>,
                 <<sendResponse(id, [key |-> "", val |-> o.val])>>)

handleToolsCall(id, req, o) ==
    LET params == parseToolCallParams(req.Params) IN
    IF ~params.ok
    THEN Outcome("handleToolsCall", <<>>,
                 <<sendError(id, ErrorCodeInvalidParams,
                             <<"Invalid tool call parameters">>, JStr(params.err))>>)
    ELSE IF ~o.ok
    THEN Outcome("handleToolsCall", <<Call("CallTool", params.name, "", params.args)>>,
                 <<sendError(id, ErrorCodeInvalidParams,
                             <<"Tool call failed: ", o.err>>, GoNil)>>)
    ELSE Outcome("handleToolsCall", <<Call("CallTool", params.name, "", params.args)>>,
                 <<sendResponse(id, [key |-> "", val |-> o.val])>>)

handleResourcesRead(id, req, o) ==
    LET params == parseResourceParams(req.Params) IN
    IF ~params.ok
    THEN Outcome("handleResourcesRead", <<>>,
                 <<sendError(id, ErrorCodeInvalidParams,
                             <<"Invalid resource read parameters">>, JStr(params.err))>>)
    ELSE IF ~o.ok
    THEN Outcome("handleResourcesRead", <<Call("ReadResource", "", params.uri, "")>>,
                 <<sendError(id, ErrorCodeInvalidParams,
                             <<"Resource read failed: ", o.err>>, GoNil)>>)
    ELSE Outcome("handleResourcesRead", <<Call("ReadResource", "", params.uri, "")>>,
                 <<sendResponse(id, [key |-> "", val |-> o.val])>>)

handlePromptsGet(id, req, o) ==
    LET params == parsePromptParams(req.Params) IN
    IF ~params.ok
    THEN Outcome("handlePromptsGet", <<>>,
                 <<sendError(id, ErrorCodeInvalidParams,
                             <<"Invalid prompt parameters">>, JStr(params.err))>>)
    ELSE IF ~o.ok
    THEN Outcome("handlePromptsGet", <<Call("GetPrompt", params.name, "", params.args)>>,
                 <<sendError(id, ErrorCodeInvalidParams,
                             <<"Prompt call failed: ", o.err>>, GoNil)>>)
    ELSE Outcome("handlePromptsGet", <<Call("GetPrompt", params.name, "", params.args)>>,
                 <<sendResponse(id, [key |-> "", val |-> o.val])>>)

\* A faulty handlePing: the response is sent with a nil result.
handlePing_NilResult(id) ==
    Outcome("handlePing", <<>>, <<sendResponse(id, NilResult)>>)

handlePing(id) ==
    Outcome("handlePing", <<>>, <<sendResponse(id, [key |-> "", val |-> "{}"])>>)

\* The default branch of the method switch.
handleUnknown(req) ==
    Outcome("default", <<>>,
            <<sendError(req.ID, ErrorCodeMethodNotFound,
                        <<"Method ", req.Method, " not found">>, GoNil)>>)

\* A faulty HandleRequest: ping is matched whatever the case of its first
\* letter.
HandleRequest_FoldsCase(req, o) ==
    CASE req.Method = "initialize" -> handleInitialize(req.ID)
      [] req.Method = "tools/list" -> handleToolsList(req.ID, o)
      [] req.Method = "tools/call" -> handleToolsCall(req.ID, req, o)
      [] req.Method = "resources/list" -> handleResourcesList(req.ID, o)
      [] req.Method = "resources/read" -> handleResourcesRead(req.ID, req, o)
      [] req.Method = "resources/templates/list" -> handleResourceTemplatesList(req.ID, o)
      [] req.Method = "prompts/list" -> handlePromptsList(req.ID, o)
      [] req.Method = "prompts/get" -> handlePromptsGet(req.ID, req, o)
      [] req.Method \in {"ping", "Ping"} -> handlePing(req.ID)
      [] OTHER -> handleUnknown(req)

(***************************************************************************)
(* Server.HandleRequest: the switch on req.Method (string equality).       *)
(***************************************************************************)
HandleRequest(req, o) ==
    CASE req.Method = "initialize" -> handleInitialize(req.ID)
      [] req.Method = "tools/list" -> handleToolsList(req.ID, o)
      [] req.Method = "tools/call" -> handleToolsCall(req.ID, req, o)
      [] req.Method = "resources/list" -> handleResourcesList(req.ID, o)
      [] req.Method = "resources/read" -> handleResourcesRead(req.ID, req, o)
      [] req.Method = "resources/templates/list" -> handleResourceTemplatesList(req.ID, o)
      [] req.Method = "prompts/list" -> handlePromptsList(req.ID, o)
      [] req.Method = "prompts/get" -> handlePromptsGet(req.ID, req, o)
      [] req.Method = "ping" -> handlePing(req.ID)
      [] OTHER -> handleUnknown(req)

(***************************************************************************)
(* Messages on the wire.  shape is "object" for a JSON object, "array"     *)
(* for valid JSON that is no object, "garbage" for text that is not JSON,  *)
(* "empty" for an empty stdio line.                                        *)
(***************************************************************************)
WireMsg(shape, jsonrpc, method, id, params) ==
    [shape |-> shape, jsonrpc |-> jsonrpc, method |-> method, id |-> id, params |-> params]

RoutedMethods ==
    {"initialize", "tools/list", "tools/call", "resources/list", "resources/read",
     "resources/templates/list", "prompts/list", "prompts/get", "ping"}
ParamMethods == {"tools/call", "resources/read", "prompts/get"}
UnknownMethods == {"frobnicate", "Ping", "tools/List"}

WireIds == {Absent, JNull, JNum("7"), JStr("a"), JNum(BigID)}
WireVersions == {JStr(JSONRPCVersion), JStr("1.0")}

WireParams ==
    {NoParams, ScalarParams("null"), ScalarParams("string"), ScalarParams("array")}
    \cup {ObjParams(n, u, Absent) : n \in {Absent, JStr("green"), JNum("1")},
                                    u \in {Absent, JStr("tea://menu"), JNull}}
    \cup {ObjParams(JStr("green"), Absent, a) : a \in {JObj, JStr("x")}}

\* params matter only to the three methods that extract them.
ParamsFor(method) == IF method \in ParamMethods THEN WireParams ELSE {NoParams}

\* Every method with every params, as a well-formed request; and every id
\* with every version, for a method of each kind (the code reads the id and
\* the version before it looks at the method, and the params last).
ObjectMsgs ==
    UNION {{WireMsg("object", JStr(JSONRPCVersion), JStr(m), id, p) :
               id \in {JNum("7"), JStr("a")}, p \in ParamsFor(m)}
           : m \in RoutedMethods \cup UnknownMethods}
    \cup {WireMsg("object", ver, m, id, p) :
             ver \in WireVersions, id \in WireIds,
             m \in {JStr("ping"), JStr("tools/list"), JStr("tools/call"), JStr("frobnicate"),
                    Absent},
             p \in {NoParams, ObjParams(JStr("green"), Absent, Absent)}}

\* Messages that fail decoding into mcp.Request: a member of the wrong type
\* (method given as a number), valid JSON that is no object, and non-JSON.
UndecodableMsgs ==
    {WireMsg("object", JStr(JSONRPCVersion), JNum("1"), id, NoParams) : id \in WireIds}
    \cup {WireMsg("array", Absent, Absent, Absent, NoParams),
          WireMsg("garbage", Absent, Absent, Absent, NoParams)}

EmptyLine == WireMsg("empty", Absent, Absent, Absent, NoParams)
NoMsg == WireMsg("none", Absent, Absent, Absent, NoParams)

Messages == ObjectMsgs \cup UndecodableMsgs

\* A request, a notification and a request of another version, for the runs
\* that explore concurrency.
FewMessages ==
    {WireMsg("object", JStr(JSONRPCVersion), JStr("tools/list"), JNum("7"), NoParams),
     WireMsg("object", JStr(JSONRPCVersion), JStr("ping"), Absent, NoParams),
     WireMsg("object", JStr("1.0"), JStr("ping"), JNum("7"), NoParams)}

\* A result and an error, for the runs that explore concurrency.
FewOutcomes == {HandlerOK("value"), HandlerErr("boom")}

\* What a handler that honours its context returns once the per-request
\* timeout (context.WithTimeout) has expired: ctx.Err().
DeadlineExceeded == HandlerErr("context deadline exceeded")

HandlerOutcomes ==
    {HandlerOK("value"), HandlerOK(Unencodable), HandlerErr("boom"), DeadlineExceeded}

\* json.Unmarshal(line, &req) / json.NewDecoder(body).Decode(&req).
DecodeOK(m) ==
    /\ m.shape = "object"
    /\ StringFieldOK(m.jsonrpc)
    /\ StringFieldOK(m.method)

DecodeRequest(m) ==
    Request(DecodeString(m.jsonrpc), DecodeString(m.method), DecodeAny(m.id),
            DecodeParams(m.params))

NilRequest == Request("", "", GoNil, ScalarParams("nil"))
NoErr == ""

(***************************************************************************)
(* What is observed of one exchange (one stdio line, one HTTP request):    *)
(* the message, whether it was decoded and dispatched, the dispatcher      *)
(* handler reached, the external handler invocations and what the handler  *)
(* returned, the sends attempted on the ResponseSender, and what was       *)
(* written to the client.                                                  *)
(***************************************************************************)
NoBody == Marshal(NilResponse)
\* One write to the client: a stdout line, an HTTP status with or without a
\* JSON body, or an SSE event.
Written(kind, status, eventID, eventType, hasBody, body) ==
    [kind |-> kind, status |-> status, eventID |-> eventID, eventType |-> eventType,
     hasBody |-> hasBody, body |-> body]
Line(response) == Written("line", 0, 0, "", TRUE, Marshal(response))
Body(status, response) == Written("body", status, 0, "", TRUE, Marshal(response))
StatusOnly(status) == Written("status", status, 0, "", FALSE, NoBody)
Event(eventID, eventType, response) ==
    Written("event", StatusOK, eventID, eventType, response # NilResponse, Marshal(response))

NewExchange(transport, verb, m, accept) ==
    [transport |-> transport, verb |-> verb, msg |-> m, accept |-> accept,
     decoded |-> FALSE, req |-> NilRequest, dispatched |-> FALSE, handler |-> "",
     calls |-> <<>>, returned |-> NoOutcome, sends |-> <<>>, ret |-> NoErr, out |-> <<>>,
     done |-> FALSE]

NoExchange == NewExchange("", "", NoMsg, {})

(***************************************************************************)
(* SSESession: the session object of the HTTP transport.  stream is what   *)
(* the session has written so far, one [id, event] per emitted event;      *)
(* first is the cursor the session was created with.                       *)
(***************************************************************************)
SSESession(id, eventID) ==
    [ID |-> id, eventID |-> eventID, closed |-> FALSE, first |-> eventID, stream |-> <<>>]
NoSession == SSESession("", 0)

(***************************************************************************)
(* The response senders.  A sender works on st = [sent, sess, out]: the    *)
(* HTTPResponseSender's sent flag, the SSE session, and what the client    *)
(* has been written so far.  Each send returns [st, err].                  *)
(***************************************************************************)
SenderState(sent, sess, out) == [sent |-> sent, sess |-> sess, out |-> out]
Sent(st, err) == [st |-> st, err |-> err]

\* StdoutSender.SendResponse: marshal, then print the line.
StdoutSendResponse(st, response) ==
    IF ~CanMarshal(response)
    THEN Sent(st, "failed to marshal response")
    ELSE Sent([st EXCEPT !.out = Append(@, Line(response))], NoErr)

StdoutSendError(st, id, code, message, data) ==
    StdoutSendResponse(st, Response(id, NilResult, ErrorResponse(code, message, data)))

\* HTTPResponseSender.SendResponse, the part run under h.mu: the status is
\* written before the body is encoded, and sent is set whether or not the
\* encoding succeeded.
HTTPWrite(st, response) ==
    IF ~CanMarshal(response)
    THEN Sent([st EXCEPT !.sent = TRUE, !.out = Append(@, StatusOnly(StatusOK))],
              "json: unsupported type")
    ELSE Sent([st EXCEPT !.sent = TRUE, !.out = Append(@, Body(StatusOK, response))], NoErr)

HTTPSendResponse(st, response) ==
    IF st.sent THEN Sent(st, "response already sent") ELSE HTTPWrite(st, response)

\* HTTPResponseSender.SendError: the Response it builds, handed to SendResponse.
HTTPErrorResponse(id, code, message, data) ==
    Response(id, NilResult, ErrorResponse(code, message, data))

HTTPSendError(st, id, code, message, data) ==
    HTTPSendResponse(st, HTTPErrorResponse(id, code, message, data))

\* A faulty sendEvent: the cursor advances only for events without a type.
sendEvent_NamedKeepsCursor(st, eventType, data) ==
    IF st.sess.closed
    THEN Sent(st, "session closed")
    ELSE IF ~CanMarshal(data)
    THEN Sent(st, "json: unsupported type")
    ELSE Sent([st EXCEPT !.out = Append(@, Event(st.sess.eventID, eventType, data)),
                         !.sess.stream = Append(@, [id |-> st.sess.eventID,
                                                    event |-> eventType]),
                         !.sess.eventID = IF eventType = "" THEN @ + 1 ELSE @],
              NoErr)

\* A faulty sendEvent: the cursor advances although the payload was not
\* encoded.
sendEvent_CountsFailures(st, eventType, data) ==
    IF st.sess.closed
    THEN Sent(st, "session closed")
    ELSE IF ~CanMarshal(data)
    THEN Sent([st EXCEPT !.sess.eventID = @ + 1], "json: unsupported type")
    ELSE Sent([st EXCEPT !.out = Append(@, Event(st.sess.eventID, eventType, data)),
                         !.sess.stream = Append(@, [id |-> st.sess.eventID,
                                                    event |-> eventType]),
                         !.sess.eventID = @ + 1],
              NoErr)

\* SSESession.sendEvent, run under s.mu.  data is a Response, or NilResponse
\* for the payload of the connected event (a map of strings).
sendEvent(st, eventType, data) ==
    IF st.sess.closed
    THEN Sent(st, "session closed")
    ELSE IF ~CanMarshal(data)
    THEN Sent(st, "json: unsupported type")
    ELSE Sent([st EXCEPT !.out = Append(@, Event(st.sess.eventID, eventType, data)),
                         !.sess.stream = Append(@, [id |-> st.sess.eventID,
                                                    event |-> eventType]),
                         !.sess.eventID = @ + 1],
              NoErr)

\* SSESession.sendError.
SSESessionSendError(st, id, code, message, data) ==
    sendEvent(st, "", Response(id, NilResult, ErrorResponse(code, message, data)))

\* A faulty SSEResponseSender: the session is closed once the response is sent.
SSESendResponse_Closes(st, response) ==
    LET r == sendEvent(st, "", response) IN
    Sent([r.st EXCEPT !.sess.closed = TRUE], r.err)

\* SSEResponseSender.
SSESendResponse(st, response) == sendEvent(st, "", response)
SSESendError(st, id, code, message, data) == SSESessionSendError(st, id, code, message, data)

\* Server.sendResponseDirect / Server.sendError: the call on the sender found
\* in the context.
SenderSend(kind, st, send) ==
    CASE kind = "stdout" /\ send.op = "SendResponse" -> StdoutSendResponse(st, send.response)
      [] kind = "stdout" /\ send.op = "SendError" ->
            StdoutSendError(st, send.id, send.code, send.message, send.data)
      [] kind = "http" /\ send.op = "SendResponse" -> HTTPSendResponse(st, send.response)
      [] kind = "http" /\ send.op = "SendError" ->
            HTTPSendError(st, send.id, send.code, send.message, send.data)
      [] kind = "sse" /\ send.op = "SendResponse" -> SSESendResponse(st, send.response)
      [] kind = "sse" /\ send.op = "SendError" ->
            SSESendError(st, send.id, send.code, send.message, send.data)

\* The sends of one handler run, in order; the handler returns what its
\* last send returned.
RECURSIVE RunSends(_, _, _)
RunSends(kind, st, sends) ==
    IF sends = <<>> THEN Sent(st, NoErr)
    ELSE LET r == SenderSend(kind, st, Head(sends)) IN
         IF Len(sends) = 1 THEN r ELSE RunSends(kind, r.st, Tail(sends))

\* srv.HandleRequest(reqCtx, req) with a sender of the given kind in the
\* context: the exchange as observed afterwards, and the sender's state.
Dispatch(e, kind, st, o) ==
    LET run == HandleRequest(e.req, o)
        r == RunSends(kind, st, run.sends)
    IN [ex |-> [e EXCEPT !.dispatched = TRUE, !.handler = run.handler,
                         !.calls = run.calls,
                         !.returned = IF run.calls = <<>> THEN NoOutcome ELSE o,
                         !.sends = run.sends,
                         !.ret = r.err, !.out = r.st.out],
        st |-> r.st]

(***************************************************************************)
(* The stdio transport.                                                    *)
(***************************************************************************)
\* A faulty sendParseError: the id of the payload is not looked for.
sendParseError_NoRecovery(e) ==
    LET errorResp == Response(JNum("-1"), NilResult,
                              ErrorResponse(ErrorCodeParseError, <<"Parse error">>,
                                            JStr("unmarshal error")))
    IN [e EXCEPT !.out = Append(@, Line(errorResp)), !.done = TRUE]

\* Stdio.sendParseError: the id is recovered when the line still decodes
\* into a map and has a non-null id member; otherwise it is -1.
sendParseError(e) ==
    LET errorID == IF e.msg.shape = "object" /\ DecodeAny(e.msg.id) # GoNil
                   THEN DecodeAny(e.msg.id) ELSE JNum("-1")
        errorResp == Response(errorID, NilResult,
                              ErrorResponse(ErrorCodeParseError, <<"Parse error">>,
                                            JStr("unmarshal error")))
    IN [e EXCEPT !.out = Append(@, Line(errorResp)), !.done = TRUE]

\* A faulty handleMessage: the check for a nil id is missing.
handleMessage_AnswersNotifications(m, o) ==
    LET e == NewExchange("stdio", "", m, {}) IN
    IF ~DecodeOK(m) THEN sendParseError(e)
    ELSE LET d == [e EXCEPT !.decoded = TRUE, !.req = DecodeRequest(m)] IN
         IF d.req.JSONRPC # JSONRPCVersion THEN [d EXCEPT !.done = TRUE]
         ELSE [Dispatch(d, "stdout", SenderState(FALSE, NoSession, d.out), o).ex
                  EXCEPT !.done = TRUE]

\* Stdio.handleMessage.
handleMessage(m, o) ==
    LET e == NewExchange("stdio", "", m, {}) IN
    IF ~DecodeOK(m) THEN sendParseError(e)
    ELSE LET d == [e EXCEPT !.decoded = TRUE, !.req = DecodeRequest(m)] IN
         IF d.req.JSONRPC # JSONRPCVersion THEN [d EXCEPT !.done = TRUE]
         ELSE IF d.req.ID = GoNil THEN [d EXCEPT !.done = TRUE]
         ELSE [Dispatch(d, "stdout", SenderState(FALSE, NoSession, d.out), o).ex
                  EXCEPT !.done = TRUE]

(***************************************************************************)
(* HTTP request headers.                                                   *)
(***************************************************************************)
MediaJSON == "application/json"
MediaSSE == "text/event-stream"
\* The Accept header, as the set of media types it names.
Accepts == {{"text/html"}, {MediaJSON}, {MediaSSE}, {MediaJSON, MediaSSE}}
FewAccepts == {{"text/html"}, {MediaJSON}, {MediaSSE}}

\* strconv.Itoa, for the header values a client presents.
RECURSIVE Itoa(_)
Itoa(n) == IF n < 10 THEN <<ToString(n)>> ELSE Itoa(n \div 10) \o <<ToString(n % 10)>>

DigitChars == {"0", "1", "2", "3", "4", "5", "6", "7", "8", "9"}
DigitValue(ch) ==
    CASE ch = "0" -> 0 [] ch = "1" -> 1 [] ch = "2" -> 2 [] ch = "3" -> 3 [] ch = "4" -> 4
      [] ch = "5" -> 5 [] ch = "6" -> 6 [] ch = "7" -> 7 [] ch = "8" -> 8 [] ch = "9" -> 9

RECURSIVE DigitsValue(_)
DigitsValue(cs) ==
    IF cs = <<>> THEN 0
    ELSE DigitsValue(SubSeq(cs, 1, Len(cs) - 1)) * 10 + DigitValue(cs[Len(cs)])

\* strconv.Atoi on a header value (a sequence of characters): an optional
\* sign, then one or more decimal digits and nothing else.
Atoi(cs) ==
    LET signed == cs # <<>> /\ cs[1] \in {"+", "-"}
        digits == IF signed THEN Tail(cs) ELSE cs
    IN IF digits = <<>> \/ \E i \in 1..Len(digits) : digits[i] \notin DigitChars
       THEN [ok |-> FALSE, n |-> 0]
       ELSE [ok |-> TRUE,
             n |-> IF signed /\ cs[1] = "-" THEN -DigitsValue(digits) ELSE DigitsValue(digits)]

Headers(lastEventID, sessionID) == [lastEventID |-> lastEventID, sessionID |-> sessionID]

\* Last-Event-ID values a client presents: none, numbers, a negative
\* number, and a value strconv.Atoi rejects.
LastEventIDs ==
    {<<>>} \cup {Itoa(n) : n \in 0..MaxLastEventID}
    \cup {<<"1", "x">>, <<"-", "1">>}

\* Mcp-Session-Id values a client presents: none, and the first id the
\* server issues.
ClientSessionIDs == {"", sessionIDPrefix \o ToString(1)}

AllHeaders == {Headers(l, s) : l \in LastEventIDs, s \in ClientSessionIDs}
FewHeaders == {Headers(<<>>, ""), Headers(<<"1">>, "s1")}

(***************************************************************************)
(* NewMCPServer and its options (server package).  A handler argument is   *)
(* an interface value: nil, an interface holding a nil pointer (which is   *)
(* not equal to nil), or a handler.  An Option is a function on the        *)
(* serverConfig: one made by a With... function, or nil.  Durations are in *)
(* seconds.                                                                *)
(***************************************************************************)
NilHandler == "nil"
HandlerValues == {NilHandler, "typed nil", "handler"}

Logger(made, level, json) == [made |-> made, level |-> level, json |-> json]
NilLogger == Logger("nil", "", FALSE)
CustomLogger == Logger("custom", "debug", FALSE)
NilOption == [field |-> "", value |-> ""]
\* WithLogger, WithRequestTimeout, ..., WithLogJSON: the option sets one field.
With(field, value) == [field |-> field, value |-> value]

Options ==
    {NilOption,
     With("customLogger", CustomLogger), With("customLogger", NilLogger),
     With("requestTimeout", 45), With("requestTimeout", 60),
     With("shutdownTimeout", 15),
     With("logLevel", "debug"),
     With("logJSON", TRUE)}

DefaultConfig ==
    [requestTimeout |-> 30, shutdownTimeout |-> 5, readTimeout |-> 30,
     writeTimeout |-> 30, idleTimeout |-> 120, logLevel |-> "info", logJSON |-> FALSE,
     customLogger |-> NilLogger]

\* opt(config)
ApplyOption(config, opt) ==
    [f \in DOMAIN config |-> IF f = opt.field THEN opt.value ELSE config[f]]

\* for _, opt := range opts { opt(config) }: a nil opt panics.
RECURSIVE ApplyOptions(_, _)
ApplyOptions(config, opts) ==
    IF opts = <<>> THEN [config |-> config, panic |-> FALSE]
    ELSE IF Head(opts).field = NilOption.field THEN [config |-> config, panic |-> TRUE]
    ELSE ApplyOptions(ApplyOption(config, Head(opts)), Tail(opts))

\* createDefaultLogger: a logger made from the level and the format.
createDefaultLogger(logLevel, logJSON) ==
    Logger("default",
           IF logLevel \in {"debug", "info", "warn", "error"} THEN logLevel ELSE "info",
           logJSON)

NoServer == [tool |-> NilHandler, resource |-> NilHandler, prompt |-> NilHandler,
             logger |-> NilLogger, config |-> DefaultConfig]
Built(srv, err, panic) == [srv |-> srv, err |-> err, panic |-> panic]

\* A faulty NewMCPServer: the first option given for a field wins.
NewMCPServer_FirstOptionWins(toolHandler, resourceHandler, promptHandler, opts) ==
    IF toolHandler = NilHandler THEN Built(NoServer, "toolHandler cannot be nil", FALSE)
    ELSE IF resourceHandler = NilHandler
    THEN Built(NoServer, "resourceHandler cannot be nil", FALSE)
    ELSE IF promptHandler = NilHandler
    THEN Built(NoServer, "promptHandler cannot be nil", FALSE)
    ELSE LET a == ApplyOptions(DefaultConfig, [k \in 1..Len(opts) |-> opts[Len(opts) + 1 - k]]) IN
         IF a.panic THEN Built(NoServer, NoErr, TRUE)
         ELSE Built([tool |-> toolHandler, resource |-> resourceHandler,
                     prompt |-> promptHandler,
                     logger |-> IF a.config.customLogger # NilLogger
                                THEN a.config.customLogger
                                ELSE createDefaultLogger(a.config.logLevel, a.config.logJSON),
                     config |-> a.config],
                    NoErr, FALSE)

\* NewMCPServer: the three nil checks, the default configuration, the
\* options applied in order, the logger, the Server.
NewMCPServer(toolHandler, resourceHandler, promptHandler, opts) ==
    IF toolHandler = NilHandler THEN Built(NoServer, "toolHandler cannot be nil", FALSE)
    ELSE IF resourceHandler = NilHandler
    THEN Built(NoServer, "resourceHandler cannot be nil", FALSE)
    ELSE IF promptHandler = NilHandler
    THEN Built(NoServer, "promptHandler cannot be nil", FALSE)
    ELSE LET a == ApplyOptions(DefaultConfig, opts) IN
         IF a.panic THEN Built(NoServer, NoErr, TRUE)
         ELSE Built([tool |-> toolHandler, resource |-> resourceHandler,
                     prompt |-> promptHandler,
                     logger |-> IF a.config.customLogger # NilLogger
                                THEN a.config.customLogger
                                ELSE createDefaultLogger(a.config.logLevel, a.config.logJSON),
                     config |-> a.config],
                    NoErr, FALSE)

ServerCall(tool, resource, prompt, opts, made, out) ==
    [tool |-> tool, resource |-> resource, prompt |-> prompt, opts |-> opts,
     made |-> made, out |-> out]
NoServerCall ==
    ServerCall(NilHandler, NilHandler, NilHandler, <<>>, FALSE, Built(NoServer, NoErr, FALSE))

(***************************************************************************)
(* State.                                                                  *)
(***************************************************************************)
VARIABLES
    transport,  \* the transport main.run created: "stdio" or "http"
    cancelled,  \* the root context is cancelled
    stdio,      \* the stdio read loop: "reading", "handled" or "exited"
    conn,       \* HTTP handler goroutines: [pc, session, sent], and gone: the
                \* client has disconnected (the request's own context is done)
    ex,         \* the exchange each channel is handling or handled last
                \* (0: stdio, 1..MaxConns: the HTTP handler goroutines)
    sessions,   \* HTTPTransport.sessions: session id -> SSESession (heap index)
    heap,       \* the SSESession objects allocated so far
    clock,      \* time.Now().UnixNano(), as the number of ids synthesized
    opened,     \* the request headers each SSESession was opened with
    stopPhase,  \* HTTPTransport.Stop: "running", "closed", "shutdown", then "returned" or "timedout"
    hs,         \* one HTTPResponseSender under concurrent callers: [sent, out]
    mu,         \* its mutex: the caller holding it, or 0
    caller,     \* the concurrent callers of hs: [pc, response, err, turn]
    sendCount,  \* sends made through SSEResponseSenders by SessionSend
    tmu,        \* HTTPTransport.mu: the goroutine holding it, or 0
    smu,        \* SSESession.mu of each session: the goroutine holding it, or 0
    thread,     \* goroutines running startSSEStream, sendEvent or Stop step by
                \* step: [op, pc, ref, enc, err]
    wire,       \* what each session's writer has received, in order: a header
                \* set on it, the id line of a frame, the rest of the frame
    stdin,      \* os.Stdin: [lines, pos, end]: its lines, how many of them the
                \* scanner has returned, and how it ends ("eof" or "error")
    reader,     \* the reader goroutine of Stdio.Start: [pc, n, text]
    loop,       \* the select loop of Stdio.Start: [pc, n, text, ret, log]
    listener,   \* t.server.ListenAndServe(): "starting", "serving" or "failed"
    server      \* the call of NewMCPServer: [tool, resource, prompt, opts] and
                \* its outcome, [srv, err, panic], once it has been made

vars == <<transport, cancelled, stdio, conn, ex, sessions, heap, clock, opened, stopPhase,
          hs, mu, caller, sendCount, tmu, smu, thread, wire, stdin, reader, loop, listener, server>>
lockVars == <<tmu, smu, thread, wire>>
startVars == <<stdin, reader, loop, listener, server>>
unitVars == <<hs, mu, caller, sendCount>>
httpVars == <<conn, sessions, heap, clock, opened, stopPhase>>

Conns == 1..MaxConns
Chans == 0..MaxConns
IdleConn == [pc |-> "idle", session |-> 0, sent |-> FALSE, gone |-> FALSE]
IdleCaller == [pc |-> "idle", response |-> NilResponse, err |-> NoErr, turn |-> 0]
IdleThread == [op |-> "", pc |-> "idle", ref |-> 0, enc |-> TRUE, err |-> NoErr]
Stdin(lines, end) == [lines |-> lines, pos |-> 0, end |-> end]
IdleReader == [pc |-> "scan", n |-> 0, text |-> NoMsg]
IdleLoop == [pc |-> "select", n |-> 0, text |-> NoMsg, ret |-> "", log |-> <<>>]

InitProgram ==
    /\ cancelled = FALSE
    /\ stdio = "reading"
    /\ conn = [c \in Conns |-> IdleConn]
    /\ ex = [c \in Chans |-> NoExchange]
    /\ sessions = [id \in {} |-> 0]
    /\ heap = <<>>
    /\ clock = 0
    /\ opened = <<>>
    /\ stopPhase = "running"
    /\ hs = [sent |-> FALSE, out |-> <<>>]
    /\ mu = 0
    /\ caller = [i \in 1..MaxCallers |-> IdleCaller]
    /\ sendCount = 0
    /\ tmu = 0
    /\ smu = [ref \in 1..MaxSessions |-> 0]
    /\ thread = [i \in 1..MaxCallers |-> IdleThread]
    /\ wire = [ref \in 1..MaxSessions |-> <<>>]

\* The transport has started: the listener is serving.
InitCommon ==
    /\ InitProgram
    /\ stdin = Stdin(<<>>, "eof")
    /\ reader = IdleReader
    /\ loop = IdleLoop
    /\ listener = "serving"
    /\ server = NoServerCall

\* createTransport: the configuration selects one transport.
Init ==
    /\ transport \in {"stdio", "http"}
    /\ InitCommon

(***************************************************************************)
(* The root context: main cancels it on SIGINT/SIGTERM.                    *)
(***************************************************************************)
Cancel ==
    /\ ~cancelled
    /\ cancelled' = TRUE
    /\ UNCHANGED <<startVars, lockVars, transport, stdio, conn, ex, sessions, heap, clock, opened, stopPhase, unitVars>>

(***************************************************************************)
(* Stdio.Start: the read loop.                                             *)
(***************************************************************************)
\* A faulty read loop: the error handleMessage returns ends the loop.
StdioLine_StopsOnError(m, o) ==
    /\ transport = "stdio"
    /\ stdio = "reading"
    /\ stdio' = IF m.shape # "empty" /\ handleMessage(m, o).ret # NoErr
                THEN "exited" ELSE "handled"
    /\ ex' = [ex EXCEPT ![0] = IF m.shape = "empty"
                                THEN [NewExchange("stdio", "", m, {}) EXCEPT !.done = TRUE]
                                ELSE handleMessage(m, o)]
    /\ UNCHANGED <<startVars, lockVars, transport, cancelled, httpVars, unitVars>>

\* case line := <-lineChan: an empty line is skipped, any other is handled.
StdioLine(m, o) ==
    /\ transport = "stdio"
    /\ stdio = "reading"
    /\ stdio' = "handled"
    /\ ex' = [ex EXCEPT ![0] = IF m.shape = "empty"
                                THEN [NewExchange("stdio", "", m, {}) EXCEPT !.done = TRUE]
                                ELSE handleMessage(m, o)]
    /\ UNCHANGED <<startVars, lockVars, transport, cancelled, httpVars, unitVars>>

\* The loop comes back to its select.
StdioContinue ==
    /\ stdio = "handled"
    /\ stdio' = "reading"
    /\ ex' = [ex EXCEPT ![0] = NoExchange]
    /\ UNCHANGED <<startVars, lockVars, transport, cancelled, httpVars, unitVars>>

\* case <-ctx.Done(), and the input closing or failing: the loop returns.
StdioExit ==
    /\ transport = "stdio"
    /\ stdio = "reading"
    /\ stdio' = "exited"
    /\ UNCHANGED <<startVars, lockVars, transport, cancelled, ex, httpVars, unitVars>>

(***************************************************************************)
(* The HTTP/SSE transport.                                                 *)
(***************************************************************************)
\* HTTPTransport.sendError: a 400 with a JSON error body, written directly.
TransportSendError(out, id, code, message, data) ==
    Append(out, Body(StatusBadRequest,
                     Response(id, NilResult, ErrorResponse(code, message, data))))

wantsSSE(accept) == MediaSSE \in accept
wantsJSON(accept) == MediaJSON \in accept

\* A faulty handleJSONRequest: the internal error is written whenever
\* HandleRequest returns an error, whether or not the sender was used.
handleJSONRequest_AlwaysFallsBack(d, o) ==
    LET r == Dispatch(d, "http", SenderState(FALSE, NoSession, d.out), o) IN
    IF r.ex.ret # NoErr
    THEN [r.ex EXCEPT !.out = TransportSendError(@, d.req.ID, ErrorCodeInternalError,
                                                 <<"Internal error">>, JStr(r.ex.ret))]
    ELSE IF ~r.st.sent
         THEN [r.ex EXCEPT !.out = TransportSendError(@, d.req.ID, ErrorCodeInternalError,
                                                      <<"No response generated">>, GoNil)]
         ELSE r.ex

\* HTTPTransport.handleJSONRequest: dispatch with a fresh HTTPResponseSender,
\* then write an internal error if nothing was sent.
handleJSONRequest(d, o) ==
    LET r == Dispatch(d, "http", SenderState(FALSE, NoSession, d.out), o) IN
    IF r.ex.ret # NoErr
    THEN IF ~r.st.sent
         THEN [r.ex EXCEPT !.out = TransportSendError(@, d.req.ID, ErrorCodeInternalError,
                                                      <<"Internal error">>, JStr(r.ex.ret))]
         ELSE r.ex
    ELSE IF ~r.st.sent
         THEN [r.ex EXCEPT !.out = TransportSendError(@, d.req.ID, ErrorCodeInternalError,
                                                      <<"No response generated">>, GoNil)]
         ELSE r.ex

\* A faulty handlePost: the Accept header is not looked at before the request
\* is handled.
handlePost_IgnoresAccept(m, accept, o) ==
    LET e == NewExchange("http", "POST", m, accept) IN
    IF ~DecodeOK(m)
    THEN [e EXCEPT !.out = TransportSendError(@, JNum("-1"), ErrorCodeParseError,
                                              <<"Parse error">>, JStr("decode error")),
                   !.done = TRUE]
    ELSE LET d == [e EXCEPT !.decoded = TRUE, !.req = DecodeRequest(m)] IN
         IF d.req.JSONRPC # JSONRPCVersion
         THEN [d EXCEPT !.out = TransportSendError(@, d.req.ID, ErrorCodeInvalidRequest,
                                                   <<"Invalid JSON-RPC version">>, GoNil),
                        !.done = TRUE]
         ELSE IF d.req.ID = GoNil
         THEN [d EXCEPT !.out = Append(@, StatusOnly(StatusNoContent)), !.done = TRUE]
         ELSE IF wantsSSE(accept) /\ d.req.ID # GoNil
         THEN d
         ELSE [handleJSONRequest(d, o) EXCEPT !.done = TRUE]

\* A faulty handlePost: the stream is chosen before the id is looked at.
handlePost_StreamsFirst(m, accept, o) ==
    LET e == NewExchange("http", "POST", m, accept) IN
    IF ~DecodeOK(m)
    THEN [e EXCEPT !.out = TransportSendError(@, JNum("-1"), ErrorCodeParseError,
                                              <<"Parse error">>, JStr("decode error")),
                   !.done = TRUE]
    ELSE LET d == [e EXCEPT !.decoded = TRUE, !.req = DecodeRequest(m)] IN
         IF ~wantsJSON(accept) /\ ~wantsSSE(accept)
         THEN [d EXCEPT !.out = TransportSendError(@, d.req.ID, ErrorCodeInvalidRequest,
                  <<"Accept header must include application/json and/or text/event-stream">>,
                  GoNil),
                        !.done = TRUE]
         ELSE IF d.req.JSONRPC # JSONRPCVersion
         THEN [d EXCEPT !.out = TransportSendError(@, d.req.ID, ErrorCodeInvalidRequest,
                                                   <<"Invalid JSON-RPC version">>, GoNil),
                        !.done = TRUE]
         ELSE IF wantsSSE(accept)
         THEN d
         ELSE IF d.req.ID = GoNil
         THEN [d EXCEPT !.out = Append(@, StatusOnly(StatusNoContent)), !.done = TRUE]
         ELSE [handleJSONRequest(d, o) EXCEPT !.done = TRUE]

\* HTTPTransport.handlePost up to the choice between the SSE and the JSON
\* path: the exchange when the request is answered without a stream, with
\* done = FALSE when handleSSERequest takes over.
handlePost(m, accept, o) ==
    LET e == NewExchange("http", "POST", m, accept) IN
    IF ~DecodeOK(m)
    THEN [e EXCEPT !.out = TransportSendError(@, JNum("-1"), ErrorCodeParseError,
                                              <<"Parse error">>, JStr("decode error")),
                   !.done = TRUE]
    ELSE LET d == [e EXCEPT !.decoded = TRUE, !.req = DecodeRequest(m)] IN
         IF ~wantsJSON(accept) /\ ~wantsSSE(accept)
         THEN [d EXCEPT !.out = TransportSendError(@, d.req.ID, ErrorCodeInvalidRequest,
                  <<"Accept header must include application/json and/or text/event-stream">>,
                  GoNil),
                        !.done = TRUE]
         ELSE IF d.req.JSONRPC # JSONRPCVersion
         THEN [d EXCEPT !.out = TransportSendError(@, d.req.ID, ErrorCodeInvalidRequest,
                                                   <<"Invalid JSON-RPC version">>, GoNil),
                        !.done = TRUE]
         ELSE IF d.req.ID = GoNil
         THEN [d EXCEPT !.out = Append(@, StatusOnly(StatusNoContent)), !.done = TRUE]
         ELSE IF wantsSSE(accept) /\ d.req.ID # GoNil
         THEN d
         ELSE [handleJSONRequest(d, o) EXCEPT !.done = TRUE]

\* A faulty startSSEStream: the cursor is the Last-Event-ID itself.
NewStreamSession_OffByOne(hdr, now) ==
    LET id == Atoi(hdr.lastEventID)
        eventID == IF hdr.lastEventID # <<>> /\ id.ok THEN id.n ELSE 0
        sessionID == IF hdr.sessionID = "" THEN sessionIDPrefix \o ToString(now)
                     ELSE hdr.sessionID
    IN SSESession(sessionID, eventID)

\* startSSEStream, the session it creates: the cursor from Last-Event-ID,
\* the id from Mcp-Session-Id or from the clock.
NewStreamSession(hdr, now) ==
    LET id == Atoi(hdr.lastEventID)
        eventID == IF hdr.lastEventID # <<>> /\ id.ok THEN id.n + 1 ELSE 0
        sessionID == IF hdr.sessionID = "" THEN sessionIDPrefix \o ToString(now)
                     ELSE hdr.sessionID
    IN SSESession(sessionID, eventID)

\* t.sessions[sessionID] = session
Register(reg, sessionID, ref) ==
    [id \in DOMAIN reg \cup {sessionID} |-> IF id = sessionID THEN ref ELSE reg[id]]

\* delete(t.sessions, sessionID)
Delete(reg, sessionID) == [id \in DOMAIN reg \ {sessionID} |-> reg[id]]

\* startSSEStream up to t.mu.Unlock(): the session is created and registered.
StartSSEStream(c, e, hdr) ==
    /\ Len(heap) < MaxSessions
    /\ hdr.sessionID = "" => clock < MaxGenIds
    /\ LET now == clock + 1
           session == NewStreamSession(hdr, now)
           ref == Len(heap) + 1
       IN /\ heap' = Append(heap, session)
          /\ sessions' = Register(sessions, session.ID, ref)
          /\ clock' = IF hdr.sessionID = "" THEN now ELSE clock
          /\ opened' = Append(opened, hdr)
          /\ conn' = [conn EXCEPT ![c] = [pc |-> "sse_open", session |-> ref, sent |-> FALSE, gone |-> FALSE]]
          /\ ex' = [ex EXCEPT ![c] = e]

\* The listener accepts request c; requests are numbered in the order they
\* arrive.
Accepting(c) ==
    /\ transport = "http"
    /\ stopPhase \in {"running", "closed"}
    /\ listener = "serving"
    /\ conn[c].pc = "idle"
    /\ \A d \in Conns : d < c => conn[d].pc # "idle"

\* POST /mcp.
HandlePost(c, m, accept, hdr, o) ==
    /\ Accepting(c)
    /\ LET e == handlePost(m, accept, o) IN
       IF e.done
       THEN /\ ex' = [ex EXCEPT ![c] = e]
            /\ conn' = [conn EXCEPT ![c] = [pc |-> "done", session |-> 0,
                                            sent |-> e.dispatched, gone |-> FALSE]]
            /\ UNCHANGED <<sessions, heap, clock, opened>>
       ELSE StartSSEStream(c, e, hdr)
    /\ UNCHANGED <<startVars, lockVars, transport, cancelled, stdio, stopPhase, unitVars>>

\* GET /mcp: handleGet up to the registration of its session.
HandleGet(c, hdr) ==
    /\ Accepting(c)
    /\ StartSSEStream(c, NewExchange("http", "GET", NoMsg, {}), hdr)
    /\ UNCHANGED <<startVars, lockVars, transport, cancelled, stdio, stopPhase, unitVars>>

\* A faulty handleGet: after the connected event the GET goes on to
\* srv.HandleRequest as an SSE-promoted POST does.
SSEConnected_DispatchesGet(c) ==
    /\ conn[c].pc = "sse_open"
    /\ LET ref == conn[c].session
           r == sendEvent(SenderState(FALSE, heap[ref], ex[c].out), "connected", NilResponse)
       IN /\ heap' = [heap EXCEPT ![ref] = r.st.sess]
          /\ ex' = [ex EXCEPT ![c].out = r.st.out]
    /\ conn' = [conn EXCEPT ![c].pc = "sse_dispatch"]
    /\ UNCHANGED <<startVars, lockVars, transport, cancelled, stdio, sessions, clock, opened, stopPhase, unitVars>>

\* startSSEStream, the rest: the connected event (its result is not looked at).
SSEConnected(c) ==
    /\ conn[c].pc = "sse_open"
    /\ LET ref == conn[c].session
           r == sendEvent(SenderState(FALSE, heap[ref], ex[c].out), "connected", NilResponse)
       IN /\ heap' = [heap EXCEPT ![ref] = r.st.sess]
          /\ ex' = [ex EXCEPT ![c].out = r.st.out]
    /\ conn' = [conn EXCEPT ![c].pc = IF ex[c].verb = "POST" THEN "sse_dispatch"
                                      ELSE "get_blocked"]
    /\ UNCHANGED <<startVars, lockVars, transport, cancelled, stdio, sessions, clock, opened, stopPhase, unitVars>>

\* A faulty handleSSERequest: the internal error is sent on the session
\* whether or not HandleRequest returned an error.
SSEDispatch_AlwaysFallsBack(c, o) ==
    /\ conn[c].pc = "sse_dispatch"
    /\ LET ref == conn[c].session
           r == Dispatch(ex[c], "sse", SenderState(FALSE, heap[ref], ex[c].out), o)
       IN /\ heap' = [heap EXCEPT ![ref] = r.st.sess]
          /\ ex' = [ex EXCEPT ![c] = r.ex]
          /\ conn' = [conn EXCEPT ![c].pc = "sse_fallback"]
    /\ UNCHANGED <<startVars, lockVars, transport, cancelled, stdio, sessions, clock, opened, stopPhase, unitVars>>

\* handleSSERequest: srv.HandleRequest with an SSEResponseSender on the session.
SSEDispatch(c, o) ==
    /\ conn[c].pc = "sse_dispatch"
    /\ LET ref == conn[c].session
           r == Dispatch(ex[c], "sse", SenderState(FALSE, heap[ref], ex[c].out), o)
       IN /\ heap' = [heap EXCEPT ![ref] = r.st.sess]
          /\ ex' = [ex EXCEPT ![c] = [r.ex EXCEPT !.done = (r.ex.ret = NoErr)]]
          /\ conn' = [conn EXCEPT ![c].pc = IF r.ex.ret # NoErr THEN "sse_fallback"
                                            ELSE "done"]
    /\ UNCHANGED <<startVars, lockVars, transport, cancelled, stdio, sessions, clock, opened, stopPhase, unitVars>>

\* handleSSERequest: HandleRequest returned an error, an internal error is
\* sent on the session (its result is not looked at) and the handler returns.
SSEFallback(c) ==
    /\ conn[c].pc = "sse_fallback"
    /\ LET ref == conn[c].session
           r == SSESessionSendError(SenderState(FALSE, heap[ref], ex[c].out), ex[c].req.ID,
                                    ErrorCodeInternalError, <<"Internal error">>,
                                    JStr(ex[c].ret))
       IN /\ heap' = [heap EXCEPT ![ref] = r.st.sess]
          /\ ex' = [ex EXCEPT ![c].out = r.st.out, ![c].done = TRUE]
    /\ conn' = [conn EXCEPT ![c].pc = "done"]
    /\ UNCHANGED <<startVars, lockVars, transport, cancelled, stdio, sessions, clock, opened, stopPhase, unitVars>>

\* A faulty handleGet: the handler returns without deleting its session.
GetRelease_KeepsSession(c) ==
    /\ conn[c].pc = "get_blocked"
    /\ cancelled
    /\ conn' = [conn EXCEPT ![c].pc = "done"]
    /\ ex' = [ex EXCEPT ![c].done = TRUE]
    /\ UNCHANGED <<startVars, lockVars, transport, cancelled, stdio, sessions, heap, clock, opened, stopPhase, unitVars>>

\* handleGet: <-ctx.Done() on the root context, then the session's id is
\* deleted from the registry.
GetRelease(c) ==
    /\ conn[c].pc = "get_blocked"
    /\ cancelled
    /\ sessions' = Delete(sessions, heap[conn[c].session].ID)
    /\ conn' = [conn EXCEPT ![c].pc = "done"]
    /\ ex' = [ex EXCEPT ![c].done = TRUE]
    /\ UNCHANGED <<startVars, lockVars, transport, cancelled, stdio, heap, clock, opened, stopPhase, unitVars>>

\* HTTPTransport.Stop, under t.mu: every registered session is closed and
\* the registry replaced by an empty one.  Start calls it once the root
\* context is cancelled.
StopSessions ==
    /\ transport = "http"
    /\ cancelled
    /\ stopPhase = "running"
    /\ heap' = [ref \in DOMAIN heap |->
                   IF \E id \in DOMAIN sessions : sessions[id] = ref
                   THEN [heap[ref] EXCEPT !.closed = TRUE] ELSE heap[ref]]
    /\ sessions' = [id \in {} |-> 0]
    /\ stopPhase' = "closed"
    /\ UNCHANGED <<startVars, lockVars, transport, cancelled, stdio, conn, ex, clock, opened, unitVars>>

\* A faulty Stop: the listener is shut down without the sessions being closed.
StopShutdown_First ==
    /\ transport = "http"
    /\ cancelled
    /\ stopPhase = "running"
    /\ stopPhase' = "shutdown"
    /\ UNCHANGED <<startVars, lockVars, transport, cancelled, stdio, conn, ex, sessions, heap, clock, opened, unitVars>>

\* HTTPTransport.Stop: t.server.Shutdown closes the listener.
StopShutdown ==
    /\ stopPhase = "closed"
    /\ stopPhase' = "shutdown"
    /\ UNCHANGED <<startVars, lockVars, transport, cancelled, stdio, conn, ex, sessions, heap, clock, opened, unitVars>>

\* HTTPTransport.Stop: t.server.Shutdown returns, with nil once no handler is
\* running, or with the context's error when shutdownTimeout has elapsed.
StopReturn ==
    /\ stopPhase = "shutdown"
    /\ stopPhase' = IF \A c \in Conns : conn[c].pc \in {"idle", "done"}
                    THEN "returned" ELSE "timedout"
    /\ UNCHANGED <<startVars, lockVars, transport, cancelled, stdio, conn, ex, sessions, heap, clock, opened, unitVars>>

\* The read loop takes the next line.
ReadLine ==
    /\ stdio = "reading"
    /\ \E m \in Messages \cup {EmptyLine}, o \in HandlerOutcomes : StdioLine(m, o)

\* Request c arrives as a POST /mcp.
Post(c, msgs, accepts, hdrs, outcomes) ==
    /\ Accepting(c)
    /\ \E m \in msgs, accept \in accepts, hdr \in hdrs, o \in outcomes :
          HandlePost(c, m, accept, hdr, o)

\* Request c arrives as a GET /mcp.
Get(c, hdrs) ==
    /\ Accepting(c)
    /\ \E hdr \in hdrs : HandleGet(c, hdr)

(***************************************************************************)
(* The program with one of its transports: the stdio read loop over every  *)
(* line, or the HTTP transport serving one request, over every message.    *)
(* What an earlier request left behind does not enter the handling of a    *)
(* request (startSSEStream always creates its SSESession); SpecHTTP is the *)
(* specification with several requests.                                    *)
(***************************************************************************)
Next ==
    \/ Cancel
    \/ ReadLine
    \/ StdioContinue
    \/ StdioExit
    \/ Post(1, Messages, Accepts, FewHeaders, HandlerOutcomes)
    \/ Get(1, FewHeaders)
    \/ SSEConnected(1)
    \/ \E o \in HandlerOutcomes : SSEDispatch(1, o)
    \/ SSEFallback(1)
    \/ GetRelease(1)
    \/ StopSessions
    \/ StopShutdown
    \/ StopReturn

Spec == Init /\ [][Next]_vars

(***************************************************************************)
(* The HTTP transport serving MaxConns requests, concurrently, over a few  *)
(* messages, Accept headers, stream headers and handler outcomes.          *)
(***************************************************************************)
InitHTTP ==
    /\ transport = "http"
    /\ InitCommon

NextHTTP ==
    \/ Cancel
    \/ \E c \in Conns : Post(c, FewMessages, FewAccepts, FewHeaders, FewOutcomes)
    \/ \E c \in Conns : Get(c, FewHeaders)
    \/ \E c \in Conns : SSEConnected(c)
    \/ \E c \in Conns, o \in FewOutcomes : SSEDispatch(c, o)
    \/ \E c \in Conns : SSEFallback(c)
    \/ \E c \in Conns : GetRelease(c)
    \/ StopSessions
    \/ StopShutdown
    \/ StopReturn

SpecHTTP == InitHTTP /\ [][NextHTTP]_vars

(***************************************************************************)
(* One HTTPResponseSender used by MaxCallers concurrent callers, each      *)
(* making one SendResponse or SendError call.                              *)
(***************************************************************************)
SenderSends ==
    {sendResponse(JNum("7"), [key |-> "", val |-> "value"]),
     sendResponse(JNum("7"), [key |-> "", val |-> Unencodable]),
     sendError(JNum("7"), ErrorCodeInternalError, <<"Internal error">>, GoNil)}

Callers == 1..MaxCallers

\* The call is made; SendError builds its Response before SendResponse locks.
CallerCall(i, send) ==
    /\ caller[i].pc = "idle"
    /\ caller' = [caller EXCEPT ![i].pc = "lock",
                                ![i].response =
                                    IF send.op = "SendResponse" THEN send.response
                                    ELSE HTTPErrorResponse(send.id, send.code, send.message,
                                                           send.data)]
    /\ UNCHANGED <<startVars, lockVars, transport, cancelled, stdio, httpVars, ex, hs, mu, sendCount>>

\* A faulty sender without its mutex: the lock is taken whoever holds it.
CallerLock_NoMutex(i) ==
    /\ caller[i].pc = "lock"
    /\ mu' = i
    /\ caller' = [caller EXCEPT ![i].pc = "check",
                                ![i].turn = 1 + Cardinality({j \in Callers : caller[j].turn > 0})]
    /\ UNCHANGED <<startVars, lockVars, transport, cancelled, stdio, httpVars, ex, hs, sendCount>>

\* h.mu.Lock(); turn is the caller's place in the order of the calls.
CallerLock(i) ==
    /\ caller[i].pc = "lock"
    /\ mu = 0
    /\ mu' = i
    /\ caller' = [caller EXCEPT ![i].pc = "check",
                                ![i].turn = 1 + Cardinality({j \in Callers : caller[j].turn > 0})]
    /\ UNCHANGED <<startVars, lockVars, transport, cancelled, stdio, httpVars, ex, hs, sendCount>>

\* if h.sent { return "response already sent" }
CallerCheck(i) ==
    /\ caller[i].pc = "check"
    /\ caller' = [caller EXCEPT ![i].pc = IF hs.sent THEN "unlock" ELSE "write",
                                ![i].err = IF hs.sent THEN "response already sent" ELSE NoErr]
    /\ UNCHANGED <<startVars, lockVars, transport, cancelled, stdio, httpVars, ex, hs, mu, sendCount>>

\* The header, the status, the encoded body; h.sent = true.
CallerWrite(i) ==
    /\ caller[i].pc = "write"
    /\ LET r == HTTPWrite(SenderState(hs.sent, NoSession, hs.out), caller[i].response) IN
       /\ hs' = [sent |-> r.st.sent, out |-> r.st.out]
       /\ caller' = [caller EXCEPT ![i].pc = "unlock", ![i].err = r.err]
    /\ UNCHANGED <<startVars, lockVars, transport, cancelled, stdio, httpVars, ex, mu, sendCount>>

\* defer h.mu.Unlock(): the call returns.
CallerUnlock(i) ==
    /\ caller[i].pc = "unlock"
    /\ mu' = 0
    /\ caller' = [caller EXCEPT ![i].pc = "done"]
    /\ UNCHANGED <<startVars, lockVars, transport, cancelled, stdio, httpVars, ex, hs, sendCount>>

NextSender ==
    \/ \E i \in Callers, send \in SenderSends : CallerCall(i, send)
    \/ \E i \in Callers : CallerLock(i)
    \/ \E i \in Callers : CallerCheck(i)
    \/ \E i \in Callers : CallerWrite(i)
    \/ \E i \in Callers : CallerUnlock(i)

SpecSender == InitHTTP /\ [][NextSender]_vars

(***************************************************************************)
(* The sessions of the HTTP transport: streams are opened with every       *)
(* header, any open session is sent on through its SSEResponseSender any   *)
(* number of times, and Stop closes the sessions.                          *)
(***************************************************************************)
StreamSends ==
    {sendResponse(JNum("7"), [key |-> "", val |-> "value"]),
     sendResponse(JNum("7"), [key |-> "", val |-> Unencodable]),
     sendError(JNum("7"), ErrorCodeInternalError, <<"Internal error">>, GoNil)}

\* startSSEStream as a whole (for a GET or an SSE-promoted POST): the
\* session is created and registered, and the connected event sent.
OpenStream(hdr) ==
    /\ stopPhase \in {"running", "closed"}
    /\ Len(heap) < MaxSessions
    /\ hdr.sessionID = "" => clock < MaxGenIds
    /\ LET now == clock + 1
           session == NewStreamSession(hdr, now)
           r == sendEvent(SenderState(FALSE, session, <<>>), "connected", NilResponse)
       IN /\ heap' = Append(heap, r.st.sess)
          /\ sessions' = Register(sessions, session.ID, Len(heap) + 1)
          /\ clock' = IF hdr.sessionID = "" THEN now ELSE clock
          /\ opened' = Append(opened, hdr)
    /\ UNCHANGED <<startVars, lockVars, transport, cancelled, stdio, conn, ex, stopPhase, hs, mu, caller, sendCount>>

\* A send through the SSEResponseSender of session ref.
SessionSend(ref, send) ==
    /\ ref \in DOMAIN heap
    /\ sendCount < MaxEvents
    /\ sendCount' = sendCount + 1
    /\ heap' = [heap EXCEPT ![ref] = SenderSend("sse", SenderState(FALSE, @, <<>>), send).st.sess]
    /\ UNCHANGED <<startVars, lockVars, transport, cancelled, stdio, conn, ex, sessions, clock, opened, stopPhase,
                   hs, mu, caller>>

NextSession ==
    \/ Cancel
    \/ \E hdr \in AllHeaders : OpenStream(hdr)
    \/ \E ref \in 1..MaxSessions, send \in StreamSends : SessionSend(ref, send)
    \/ StopSessions
    \/ StopShutdown

SpecSession == InitHTTP /\ [][NextSession]_vars

\* The sessions of the streams opened with a few headers: what the sends
\* through their senders do, one send at a time.
NextSends ==
    \/ Cancel
    \/ \E hdr \in FewHeaders : OpenStream(hdr)
    \/ \E ref \in 1..MaxSessions, send \in StreamSends : SessionSend(ref, send)
    \/ StopSessions
    \/ StopShutdown

SpecSends == InitHTTP /\ [][NextSends]_vars

(***************************************************************************)
(* GET /mcp streams and their clients: a client may disconnect, which      *)
(* cancels the context of its request (r.Context()); handleGet waits on    *)
(* the context Start was given.  The steps of the program are taken        *)
(* whenever they can be; signals, requests and disconnects need not come.  *)
(***************************************************************************)
\* The client of request c goes away while its handler is running.
ClientDisconnect(c) ==
    /\ conn[c].pc \in {"sse_open", "get_blocked"}
    /\ ~conn[c].gone
    /\ conn' = [conn EXCEPT ![c].gone = TRUE]
    /\ UNCHANGED <<startVars, lockVars, transport, cancelled, stdio, ex, sessions, heap, clock, opened, stopPhase,
                   unitVars>>

NextGet ==
    \/ Cancel
    \/ \E c \in Conns : Get(c, FewHeaders)
    \/ \E c \in Conns : ClientDisconnect(c)
    \/ \E c \in Conns : SSEConnected(c)
    \/ \E c \in Conns : GetRelease(c)
    \/ StopSessions
    \/ StopShutdown
    \/ StopReturn

FairGet ==
    /\ \A c \in Conns : WF_vars(SSEConnected(c)) /\ WF_vars(GetRelease(c))
    /\ WF_vars(StopSessions)
    /\ WF_vars(StopShutdown)
    /\ WF_vars(StopReturn)

SpecGet == InitHTTP /\ [][NextGet]_vars /\ FairGet

(***************************************************************************)
(* The locks of the HTTP transport.  Goroutines run startSSEStream, sends  *)
(* through an SSEResponseSender and Stop one statement at a time; t.mu     *)
(* guards the registry and each session's s.mu guards its writer, cursor   *)
(* and closed flag.  A session is sent on by others only once              *)
(* startSSEStream has returned it.                                         *)
(***************************************************************************)
lockRest == <<startVars, transport, cancelled, stdio, conn, ex, hs, mu, caller, sendCount>>

headerMCPSessionID == "Mcp-Session-Id"

\* The event type and the payload sendEvent is called with: "connected" and
\* the map holding the session id by startSSEStream, no event type and the
\* response by a sender.
EventTypeOf(op) == IF op = "open" THEN "connected" ELSE ""
PayloadOf(op, sessionID) ==
    IF op = "open" THEN [kind |-> "map", sessionId |-> sessionID]
    ELSE [kind |-> "response", sessionId |-> ""]

\* Goroutines are numbered in the order they are started.
NextGoroutine(i) ==
    /\ thread[i].pc = "idle"
    /\ \A j \in 1..(i - 1) : thread[j].pc # "idle"

\* The goroutine that ran startSSEStream for session ref has returned from it.
StreamReturned(ref) ==
    \E j \in Callers : thread[j].op = "open" /\ thread[j].ref = ref /\ thread[j].pc = "done"

\* A faulty sendEvent: s.mu is not waited for.
SendEventLocked_NoMutex(i, ref, enc) ==
    \/ /\ NextGoroutine(i)
       /\ ref \in DOMAIN heap
       /\ StreamReturned(ref)
       /\ thread' = [thread EXCEPT ![i] = [op |-> "send", pc |-> "lock", ref |-> ref,
                                           enc |-> enc, err |-> NoErr]]
       /\ UNCHANGED <<heap, sessions, clock, opened, stopPhase, tmu, smu, wire, lockRest>>
    \/ /\ thread[i].pc = "lock"
       /\ ref = thread[i].ref /\ enc = thread[i].enc
       /\ smu' = [smu EXCEPT ![ref] = i]
       /\ thread' = [thread EXCEPT ![i].pc = "check"]
       /\ UNCHANGED <<heap, sessions, clock, opened, stopPhase, tmu, wire, lockRest>>
    \/ /\ thread[i].pc = "check"
       /\ ref = thread[i].ref /\ enc = thread[i].enc
       /\ thread' = [thread EXCEPT
             ![i].pc = IF heap[ref].closed \/ ~enc THEN "unlock" ELSE "id",
             ![i].err = IF heap[ref].closed THEN "session closed"
                        ELSE IF ~enc THEN "json: unsupported type" ELSE NoErr]
       /\ UNCHANGED <<heap, sessions, clock, opened, stopPhase, tmu, smu, wire, lockRest>>
    \/ /\ thread[i].pc = "id"
       /\ ref = thread[i].ref /\ enc = thread[i].enc
       /\ wire' = [wire EXCEPT ![ref] = Append(@, [thread |-> i, part |-> "id",
                                                   id |-> heap[ref].eventID])]
       /\ thread' = [thread EXCEPT ![i].pc = "data"]
       /\ UNCHANGED <<heap, sessions, clock, opened, stopPhase, tmu, smu, lockRest>>
    \/ /\ thread[i].pc = "data"
       /\ ref = thread[i].ref /\ enc = thread[i].enc
       /\ wire' = [wire EXCEPT ![ref] = Append(@, [thread |-> i, part |-> "data",
                                                   id |-> heap[ref].eventID,
                                                   event |-> EventTypeOf(thread[i].op),
                                                   data |-> PayloadOf(thread[i].op, heap[ref].ID)])]
       /\ thread' = [thread EXCEPT ![i].pc = "incr"]
       /\ UNCHANGED <<heap, sessions, clock, opened, stopPhase, tmu, smu, lockRest>>
    \/ /\ thread[i].pc = "incr"
       /\ ref = thread[i].ref /\ enc = thread[i].enc
       /\ heap' = [heap EXCEPT ![ref].eventID = @ + 1]
       /\ thread' = [thread EXCEPT ![i].pc = "unlock"]
       /\ UNCHANGED <<sessions, clock, opened, stopPhase, tmu, smu, wire, lockRest>>
    \/ /\ thread[i].pc = "unlock"
       /\ ref = thread[i].ref /\ enc = thread[i].enc
       /\ smu' = [smu EXCEPT ![ref] = 0]
       /\ thread' = [thread EXCEPT ![i].pc = "done"]
       /\ UNCHANGED <<heap, sessions, clock, opened, stopPhase, tmu, wire, lockRest>>

\* SSESession.sendEvent, statement by statement: s.mu.Lock(); the closed
\* check and json.Marshal; the id line; the event, data and blank lines and
\* the flush; s.eventID++; the deferred s.mu.Unlock().  With enc = FALSE the
\* payload cannot be encoded.
SendEventLocked(i, ref, enc) ==
    \/ /\ NextGoroutine(i)
       /\ ref \in DOMAIN heap
       /\ StreamReturned(ref)
       /\ thread' = [thread EXCEPT ![i] = [op |-> "send", pc |-> "lock", ref |-> ref,
                                           enc |-> enc, err |-> NoErr]]
       /\ UNCHANGED <<heap, sessions, clock, opened, stopPhase, tmu, smu, wire, lockRest>>
    \/ /\ thread[i].pc = "lock"
       /\ ref = thread[i].ref /\ enc = thread[i].enc
       /\ smu[ref] = 0
       /\ smu' = [smu EXCEPT ![ref] = i]
       /\ thread' = [thread EXCEPT ![i].pc = "check"]
       /\ UNCHANGED <<heap, sessions, clock, opened, stopPhase, tmu, wire, lockRest>>
    \/ /\ thread[i].pc = "check"
       /\ ref = thread[i].ref /\ enc = thread[i].enc
       /\ thread' = [thread EXCEPT
             ![i].pc = IF heap[ref].closed \/ ~enc THEN "unlock" ELSE "id",
             ![i].err = IF heap[ref].closed THEN "session closed"
                        ELSE IF ~enc THEN "json: unsupported type" ELSE NoErr]
       /\ UNCHANGED <<heap, sessions, clock, opened, stopPhase, tmu, smu, wire, lockRest>>
    \/ /\ thread[i].pc = "id"
       /\ ref = thread[i].ref /\ enc = thread[i].enc
       /\ wire' = [wire EXCEPT ![ref] = Append(@, [thread |-> i, part |-> "id",
                                                   id |-> heap[ref].eventID])]
       /\ thread' = [thread EXCEPT ![i].pc = "data"]
       /\ UNCHANGED <<heap, sessions, clock, opened, stopPhase, tmu, smu, lockRest>>
    \/ /\ thread[i].pc = "data"
       /\ ref = thread[i].ref /\ enc = thread[i].enc
       /\ wire' = [wire EXCEPT ![ref] = Append(@, [thread |-> i, part |-> "data",
                                                   id |-> heap[ref].eventID,
                                                   event |-> EventTypeOf(thread[i].op),
                                                   data |-> PayloadOf(thread[i].op, heap[ref].ID)])]
       /\ thread' = [thread EXCEPT ![i].pc = "incr"]
       /\ UNCHANGED <<heap, sessions, clock, opened, stopPhase, tmu, smu, lockRest>>
    \/ /\ thread[i].pc = "incr"
       /\ ref = thread[i].ref /\ enc = thread[i].enc
       /\ heap' = [heap EXCEPT ![ref].eventID = @ + 1]
       /\ thread' = [thread EXCEPT ![i].pc = "unlock"]
       /\ UNCHANGED <<sessions, clock, opened, stopPhase, tmu, smu, wire, lockRest>>
    \/ /\ thread[i].pc = "unlock"
       /\ ref = thread[i].ref /\ enc = thread[i].enc
       /\ smu' = [smu EXCEPT ![ref] = 0]
       /\ thread' = [thread EXCEPT ![i].pc = "done"]
       /\ UNCHANGED <<heap, sessions, clock, opened, stopPhase, tmu, wire, lockRest>>

\* A faulty startSSEStream: the response header is set before the session is
\* registered.
StartSSEStreamLocked_HeaderFirst(i, hdr) ==
    \/ /\ NextGoroutine(i)
       /\ transport = "http"
       /\ stopPhase \in {"running", "closed"}
       /\ Len(heap) < MaxSessions
       /\ hdr.sessionID = "" => clock < MaxGenIds
       /\ heap' = Append(heap, NewStreamSession(hdr, clock + 1))
       /\ clock' = IF hdr.sessionID = "" THEN clock + 1 ELSE clock
       /\ opened' = Append(opened, hdr)
       /\ thread' = [thread EXCEPT ![i] = [op |-> "open", pc |-> "header",
                                           ref |-> Len(heap) + 1, enc |-> TRUE,
                                           err |-> NoErr]]
       /\ UNCHANGED <<sessions, stopPhase, tmu, smu, wire, lockRest>>
    \/ /\ thread[i].pc = "header"
       /\ hdr = opened[thread[i].ref]
       /\ wire' = [wire EXCEPT ![thread[i].ref] =
                       Append(@, [thread |-> i, part |-> "header",
                                  name |-> headerMCPSessionID,
                                  value |-> heap[thread[i].ref].ID])]
       /\ thread' = [thread EXCEPT ![i].pc = "tlock"]
       /\ UNCHANGED <<heap, sessions, clock, opened, stopPhase, tmu, smu, lockRest>>
    \/ /\ thread[i].op = "open" /\ thread[i].pc = "tlock"
       /\ hdr = opened[thread[i].ref]
       /\ tmu = 0
       /\ tmu' = i
       /\ thread' = [thread EXCEPT ![i].pc = "register"]
       /\ UNCHANGED <<heap, sessions, clock, opened, stopPhase, smu, wire, lockRest>>
    \/ /\ thread[i].pc = "register"
       /\ hdr = opened[thread[i].ref]
       /\ sessions' = Register(sessions, heap[thread[i].ref].ID, thread[i].ref)
       /\ tmu' = 0
       /\ thread' = [thread EXCEPT ![i].pc = "lock"]
       /\ UNCHANGED <<heap, clock, opened, stopPhase, smu, wire, lockRest>>

\* A faulty startSSEStream: the connected event is sent with t.mu still held.
StartSSEStreamLocked_SendsUnderLock(i, hdr) ==
    \/ /\ NextGoroutine(i)
       /\ transport = "http"
       /\ stopPhase \in {"running", "closed"}
       /\ Len(heap) < MaxSessions
       /\ hdr.sessionID = "" => clock < MaxGenIds
       /\ heap' = Append(heap, NewStreamSession(hdr, clock + 1))
       /\ clock' = IF hdr.sessionID = "" THEN clock + 1 ELSE clock
       /\ opened' = Append(opened, hdr)
       /\ thread' = [thread EXCEPT ![i] = [op |-> "open", pc |-> "tlock",
                                           ref |-> Len(heap) + 1, enc |-> TRUE,
                                           err |-> NoErr]]
       /\ UNCHANGED <<sessions, stopPhase, tmu, smu, wire, lockRest>>
    \/ /\ thread[i].op = "open" /\ thread[i].pc = "tlock"
       /\ hdr = opened[thread[i].ref]
       /\ tmu = 0
       /\ tmu' = i
       /\ thread' = [thread EXCEPT ![i].pc = "register"]
       /\ UNCHANGED <<heap, sessions, clock, opened, stopPhase, smu, wire, lockRest>>
    \/ /\ thread[i].pc = "register"
       /\ hdr = opened[thread[i].ref]
       /\ sessions' = Register(sessions, heap[thread[i].ref].ID, thread[i].ref)
       /\ thread' = [thread EXCEPT ![i].pc = "header"]
       /\ UNCHANGED <<heap, clock, opened, stopPhase, tmu, smu, wire, lockRest>>
    \/ /\ thread[i].pc = "header"
       /\ hdr = opened[thread[i].ref]
       /\ wire' = [wire EXCEPT ![thread[i].ref] =
                       Append(@, [thread |-> i, part |-> "header",
                                  name |-> headerMCPSessionID,
                                  value |-> heap[thread[i].ref].ID])]
       /\ thread' = [thread EXCEPT ![i].pc = "lock"]
       /\ UNCHANGED <<heap, sessions, clock, opened, stopPhase, tmu, smu, lockRest>>

\* startSSEStream, statement by statement: the SSESession is created;
\* t.mu.Lock(); t.sessions[sessionID] = session and t.mu.Unlock();
\* w.Header().Set(headerMCPSessionID, sessionID); then
\* session.sendEvent("connected", ...), which SendEventLocked runs.
StartSSEStreamLocked(i, hdr) ==
    \/ /\ NextGoroutine(i)
       /\ transport = "http"
       /\ stopPhase \in {"running", "closed"}
       /\ Len(heap) < MaxSessions
       /\ hdr.sessionID = "" => clock < MaxGenIds
       /\ heap' = Append(heap, NewStreamSession(hdr, clock + 1))
       /\ clock' = IF hdr.sessionID = "" THEN clock + 1 ELSE clock
       /\ opened' = Append(opened, hdr)
       /\ thread' = [thread EXCEPT ![i] = [op |-> "open", pc |-> "tlock",
                                           ref |-> Len(heap) + 1, enc |-> TRUE,
                                           err |-> NoErr]]
       /\ UNCHANGED <<sessions, stopPhase, tmu, smu, wire, lockRest>>
    \/ /\ thread[i].op = "open" /\ thread[i].pc = "tlock"
       /\ hdr = opened[thread[i].ref]
       /\ tmu = 0
       /\ tmu' = i
       /\ thread' = [thread EXCEPT ![i].pc = "register"]
       /\ UNCHANGED <<heap, sessions, clock, opened, stopPhase, smu, wire, lockRest>>
    \/ /\ thread[i].pc = "register"
       /\ hdr = opened[thread[i].ref]
       /\ sessions' = Register(sessions, heap[thread[i].ref].ID, thread[i].ref)
       /\ tmu' = 0
       /\ thread' = [thread EXCEPT ![i].pc = "header"]
       /\ UNCHANGED <<heap, clock, opened, stopPhase, smu, wire, lockRest>>
    \/ /\ thread[i].pc = "header"
       /\ hdr = opened[thread[i].ref]
       /\ wire' = [wire EXCEPT ![thread[i].ref] =
                       Append(@, [thread |-> i, part |-> "header",
                                  name |-> headerMCPSessionID,
                                  value |-> heap[thread[i].ref].ID])]
       /\ thread' = [thread EXCEPT ![i].pc = "lock"]
       /\ UNCHANGED <<heap, sessions, clock, opened, stopPhase, tmu, smu, lockRest>>

\* HTTPTransport.Stop, statement by statement: t.mu.Lock(); session.close()
\* for each registered session (s.mu.Lock(), then closed = true and
\* s.mu.Unlock()); the registry replaced and t.mu.Unlock().
StopLocked(i) ==
    \/ /\ NextGoroutine(i)
       /\ transport = "http"
       /\ cancelled
       /\ stopPhase = "running"
       /\ \A j \in Callers : thread[j].op # "stop"
       /\ thread' = [thread EXCEPT ![i] = [op |-> "stop", pc |-> "tlock", ref |-> 0,
                                           enc |-> TRUE, err |-> NoErr]]
       /\ UNCHANGED <<heap, sessions, clock, opened, stopPhase, tmu, smu, wire, lockRest>>
    \/ /\ thread[i].op = "stop" /\ thread[i].pc = "tlock"
       /\ tmu = 0
       /\ tmu' = i
       /\ thread' = [thread EXCEPT ![i].pc = "closing"]
       /\ UNCHANGED <<heap, sessions, clock, opened, stopPhase, smu, wire, lockRest>>
    \/ /\ thread[i].pc = "closing"
       /\ \E id \in DOMAIN sessions :
             /\ ~heap[sessions[id]].closed
             /\ smu[sessions[id]] = 0
             /\ smu' = [smu EXCEPT ![sessions[id]] = i]
             /\ thread' = [thread EXCEPT ![i].pc = "close", ![i].ref = sessions[id]]
       /\ UNCHANGED <<heap, sessions, clock, opened, stopPhase, tmu, wire, lockRest>>
    \/ /\ thread[i].pc = "close"
       /\ heap' = [heap EXCEPT ![thread[i].ref].closed = TRUE]
       /\ smu' = [smu EXCEPT ![thread[i].ref] = 0]
       /\ thread' = [thread EXCEPT ![i].pc = "closing"]
       /\ UNCHANGED <<sessions, clock, opened, stopPhase, tmu, wire, lockRest>>
    \/ /\ thread[i].pc = "closing"
       /\ \A id \in DOMAIN sessions : heap[sessions[id]].closed
       /\ sessions' = [id \in {} |-> 0]
       /\ tmu' = 0
       /\ stopPhase' = "closed"
       /\ thread' = [thread EXCEPT ![i].pc = "done"]
       /\ UNCHANGED <<heap, clock, opened, smu, wire, lockRest>>

NextLocks ==
    \/ Cancel
    \/ \E i \in Callers, hdr \in FewHeaders : StartSSEStreamLocked(i, hdr)
    \/ \E i \in Callers, ref \in 1..MaxSessions, enc \in BOOLEAN : SendEventLocked(i, ref, enc)
    \/ \E i \in Callers : StopLocked(i)

SpecLocks == InitHTTP /\ [][NextLocks]_vars

(***************************************************************************)
(* The root context cancelled, with either transport: the read loop of     *)
(* Stdio.Start with its lines, or the HTTP transport with its GET streams. *)
(* select takes each ready case with equal probability, so a loop that     *)
(* comes back to its select again and again after the cancellation         *)
(* eventually takes the ctx.Done case.                                     *)
(***************************************************************************)
NextCancel ==
    \/ NextGet
    \/ ReadLine
    \/ StdioContinue
    \/ StdioExit

SpecCancel ==
    /\ Init /\ [][NextCancel]_vars
    /\ FairGet
    /\ WF_vars(StdioContinue)
    /\ SF_vars(cancelled /\ StdioExit)

(***************************************************************************)
(* The locks under fair scheduling: the goroutines of SpecLocks and the    *)
(* cleanups of handleGet, some goroutine taking a step whenever one can.   *)
(* The streams are opened without a session header: the locks taken do not *)
(* depend on the id.                                                       *)
(***************************************************************************)
\* A faulty cleanup: the lock of the session is taken and held while t.mu
\* is waited for.
GetCleanupLocked_SessionLockFirst(i) ==
    \/ /\ NextGoroutine(i)
       /\ cancelled
       /\ \E ref \in DOMAIN heap :
             /\ StreamReturned(ref)
             /\ \A j \in Callers : ~(thread[j].op = "cleanup" /\ thread[j].ref = ref)
             /\ thread' = [thread EXCEPT ![i] = [op |-> "cleanup", pc |-> "slock", ref |-> ref,
                                                 enc |-> TRUE, err |-> NoErr]]
       /\ UNCHANGED <<heap, sessions, clock, opened, stopPhase, tmu, smu, wire, lockRest>>
    \/ /\ thread[i].op = "cleanup" /\ thread[i].pc = "slock"
       /\ smu[thread[i].ref] = 0
       /\ smu' = [smu EXCEPT ![thread[i].ref] = i]
       /\ thread' = [thread EXCEPT ![i].pc = "tlock"]
       /\ UNCHANGED <<heap, sessions, clock, opened, stopPhase, tmu, wire, lockRest>>
    \/ /\ thread[i].op = "cleanup" /\ thread[i].pc = "tlock"
       /\ tmu = 0
       /\ tmu' = i
       /\ thread' = [thread EXCEPT ![i].pc = "delete"]
       /\ UNCHANGED <<heap, sessions, clock, opened, stopPhase, smu, wire, lockRest>>
    \/ /\ thread[i].pc = "delete"
       /\ sessions' = Delete(sessions, heap[thread[i].ref].ID)
       /\ tmu' = 0
       /\ smu' = [smu EXCEPT ![thread[i].ref] = 0]
       /\ thread' = [thread EXCEPT ![i].pc = "done"]
       /\ UNCHANGED <<heap, clock, opened, stopPhase, wire, lockRest>>

\* handleGet after <-ctx.Done(), statement by statement: t.mu.Lock();
\* delete(t.sessions, session.ID) and t.mu.Unlock().
GetCleanupLocked(i) ==
    \/ /\ NextGoroutine(i)
       /\ cancelled
       /\ \E ref \in DOMAIN heap :
             /\ StreamReturned(ref)
             /\ \A j \in Callers : ~(thread[j].op = "cleanup" /\ thread[j].ref = ref)
             /\ thread' = [thread EXCEPT ![i] = [op |-> "cleanup", pc |-> "tlock", ref |-> ref,
                                                 enc |-> TRUE, err |-> NoErr]]
       /\ UNCHANGED <<heap, sessions, clock, opened, stopPhase, tmu, smu, wire, lockRest>>
    \/ /\ thread[i].op = "cleanup" /\ thread[i].pc = "tlock"
       /\ tmu = 0
       /\ tmu' = i
       /\ thread' = [thread EXCEPT ![i].pc = "delete"]
       /\ UNCHANGED <<heap, sessions, clock, opened, stopPhase, smu, wire, lockRest>>
    \/ /\ thread[i].pc = "delete"
       /\ sessions' = Delete(sessions, heap[thread[i].ref].ID)
       /\ tmu' = 0
       /\ thread' = [thread EXCEPT ![i].pc = "done"]
       /\ UNCHANGED <<heap, clock, opened, stopPhase, smu, wire, lockRest>>

\* The next step of goroutine i, whatever it runs.
ThreadStep(i) ==
    \/ StartSSEStreamLocked(i, Headers(<<>>, ""))
    \/ \E ref \in 1..MaxSessions : SendEventLocked(i, ref, TRUE)
    \/ StopLocked(i)
    \/ GetCleanupLocked(i)

NextLocksFair ==
    \/ Cancel
    \/ \E i \in Callers : ThreadStep(i)

SpecLocksFair ==
    /\ InitHTTP /\ [][NextLocksFair]_vars
    /\ WF_vars(\E i \in Callers : ThreadStep(i))

(***************************************************************************)
(* One call of NewMCPServer, over every choice of the three handlers and   *)
(* every list of at most MaxOpts options.                                   *)
(***************************************************************************)
OptionLists == UNION {[1..k -> Options] : k \in 0..MaxOpts}

InitServer ==
    /\ transport \in {"stdio", "http"}
    /\ InitProgram
    /\ stdin = Stdin(<<>>, "eof")
    /\ reader = IdleReader
    /\ loop = IdleLoop
    /\ listener = "starting"
    /\ \E tool \in HandlerValues, resource \in HandlerValues, prompt \in HandlerValues,
          opts \in OptionLists :
          server = ServerCall(tool, resource, prompt, opts, FALSE, Built(NoServer, NoErr, FALSE))

\* main.run: the server is created.
Build ==
    /\ ~server.made
    /\ server' = [server EXCEPT
          !.made = TRUE,
          !.out = NewMCPServer(server.tool, server.resource, server.prompt, server.opts)]
    /\ UNCHANGED <<stdin, reader, loop, listener, lockVars, transport, cancelled, stdio, ex,
                   httpVars, unitVars>>

NextServer == Build

SpecServer == InitServer /\ [][NextServer]_vars

(***************************************************************************)
(* Transport.Start from its first statement.  Stdio.Start starts a reader  *)
(* goroutine that scans os.Stdin and hands each line over the unbuffered   *)
(* lineChan, a read error over errChan, and closes both when it returns;   *)
(* the loop of Start selects on ctx.Done(), errChan and lineChan.          *)
(* HTTPTransport.Start starts ListenAndServe in a goroutine and waits for  *)
(* ctx.Done().                                                             *)
(***************************************************************************)
StdinLines == FewMessages \cup {EmptyLine}
StdinEnds == {"eof", "error", "open"}
Inputs == UNION {[1..k -> StdinLines] : k \in 0..MaxLines}

notStart == <<server, lockVars, transport, cancelled, stdio, ex, httpVars, unitVars>>

\* errChan and lineChan are closed by the deferred calls of the reader
\* goroutine, errChan first.
ErrChanClosed == reader.pc \in {"closed_err", "exited"}
LineChanClosed == reader.pc = "exited"

\* A faulty reader goroutine: the send of a line does not block, and a line
\* that the loop has not taken yet is replaced by the next one.
Reader_DoesNotWait ==
    /\ transport = "stdio"
    /\ \/ /\ reader.pc \in {"scan", "send"}
          /\ stdin.pos < Len(stdin.lines)
          /\ stdin' = [stdin EXCEPT !.pos = @ + 1]
          /\ reader' = [pc |-> "send", n |-> stdin.pos + 1, text |-> stdin.lines[stdin.pos + 1]]
       \/ /\ reader.pc \in {"scan", "send"}
          /\ stdin.pos = Len(stdin.lines)
          /\ stdin.end # "open"
          /\ reader' = [reader EXCEPT !.pc = IF stdin.end = "error" THEN "err" ELSE "return"]
          /\ UNCHANGED stdin
       \/ /\ reader.pc \in {"send", "err"}
          /\ cancelled
          /\ reader' = [reader EXCEPT !.pc = "return"]
          /\ UNCHANGED stdin
       \/ /\ reader.pc = "return"
          /\ reader' = [reader EXCEPT !.pc = "closed_err"]
          /\ UNCHANGED stdin
       \/ /\ reader.pc = "closed_err"
          /\ reader' = [reader EXCEPT !.pc = "exited"]
          /\ UNCHANGED stdin
    /\ UNCHANGED <<loop, listener, notStart>>

\* The reader goroutine: scanner.Scan(); the select that sends the line or
\* sees ctx.Done(); after the last line, the select that sends scanner.Err()
\* if there is one; the deferred close(errChan) and close(lineChan).  With
\* the input still open and no line left, Scan blocks.
Reader ==
    /\ transport = "stdio"
    /\ \/ /\ reader.pc = "scan"
          /\ stdin.pos < Len(stdin.lines)
          /\ stdin' = [stdin EXCEPT !.pos = @ + 1]
          /\ reader' = [pc |-> "send", n |-> stdin.pos + 1, text |-> stdin.lines[stdin.pos + 1]]
       \/ /\ reader.pc = "scan"
          /\ stdin.pos = Len(stdin.lines)
          /\ stdin.end # "open"
          /\ reader' = [reader EXCEPT !.pc = IF stdin.end = "error" THEN "err" ELSE "return"]
          /\ UNCHANGED stdin
       \/ /\ reader.pc \in {"send", "err"}
          /\ cancelled
          /\ reader' = [reader EXCEPT !.pc = "return"]
          /\ UNCHANGED stdin
       \/ /\ reader.pc = "return"
          /\ reader' = [reader EXCEPT !.pc = "closed_err"]
          /\ UNCHANGED stdin
       \/ /\ reader.pc = "closed_err"
          /\ reader' = [reader EXCEPT !.pc = "exited"]
          /\ UNCHANGED stdin
    /\ UNCHANGED <<loop, listener, notStart>>

\* The select of Start: ctx.Done() returns nil; a value from errChan returns
\* it (nil when the channel is closed); a line from lineChan is handled, an
\* empty one skipped, and the closed lineChan returns nil.
Loop ==
    /\ transport = "stdio"
    /\ loop.pc = "select"
    /\ \/ /\ cancelled
          /\ loop' = [loop EXCEPT !.pc = "returned", !.ret = "nil"]
          /\ UNCHANGED reader
       \/ /\ reader.pc = "err"
          /\ loop' = [loop EXCEPT !.pc = "returned", !.ret = "error"]
          /\ reader' = [reader EXCEPT !.pc = "return"]
       \/ /\ ErrChanClosed
          /\ loop' = [loop EXCEPT !.pc = "returned", !.ret = "nil"]
          /\ UNCHANGED reader
       \/ /\ reader.pc = "send"
          /\ loop' = IF reader.text = EmptyLine THEN loop
                     ELSE [loop EXCEPT !.pc = "handle", !.n = reader.n, !.text = reader.text]
          /\ reader' = [reader EXCEPT !.pc = "scan"]
       \/ /\ LineChanClosed
          /\ loop' = [loop EXCEPT !.pc = "returned", !.ret = "nil"]
          /\ UNCHANGED reader
    /\ UNCHANGED <<stdin, listener, notStart>>

\* t.handleMessage(ctx, srv, line), its error only logged: log records the
\* line and the lines it wrote to stdout.
HandleLine ==
    /\ transport = "stdio"
    /\ loop.pc = "handle"
    /\ \E o \in FewOutcomes :
          loop' = [loop EXCEPT !.pc = "select",
                               !.log = Append(@, [n |-> loop.n,
                                                  out |-> handleMessage(loop.text, o).out])]
    /\ UNCHANGED <<stdin, reader, listener, notStart>>

\* go func() { t.server.ListenAndServe() }: the listener serves, or fails
\* (the port is taken), which is logged.
ListenAndServe ==
    /\ transport = "http"
    /\ listener = "starting"
    /\ listener' \in {"serving", "failed"}
    /\ UNCHANGED <<stdin, reader, loop, notStart>>

InitStart ==
    /\ transport \in {"stdio", "http"}
    /\ InitProgram
    /\ stdin \in {Stdin(lines, end) : lines \in Inputs, end \in StdinEnds}
    /\ transport = "http" => stdin = Stdin(<<>>, "open")
    /\ reader = IdleReader
    /\ loop = IdleLoop
    /\ listener = "starting"
    /\ server = NoServerCall

NextStart ==
    \/ Cancel
    \/ Reader
    \/ Loop
    \/ HandleLine
    \/ ListenAndServe
    \/ \E c \in Conns : Get(c, FewHeaders)
    \/ \E c \in Conns : SSEConnected(c)
    \/ \E c \in Conns : GetRelease(c)
    \/ StopSessions
    \/ StopShutdown
    \/ StopReturn

SpecStart ==
    /\ InitStart /\ [][NextStart]_vars
    /\ FairGet
    /\ WF_vars(Reader) /\ WF_vars(Loop) /\ WF_vars(HandleLine) /\ WF_vars(ListenAndServe)

(***************************************************************************)
(* Properties of the dispatcher and of the transports (Spec).              *)
(***************************************************************************)
\* The exchanges that reached Server.HandleRequest.
DispatchedChans == {c \in Chans : ex[c].dispatched}

\* The writes of an exchange that carry a JSON-RPC response.
Responses(e) == {i \in 1..Len(e.out) : e.out[i].hasBody}

\* C1: every request with a non-null id handed to Server.HandleRequest makes
\* exactly one send on the sender, a SendResponse or a SendError, whatever the
\* method and whatever the external handler returns.
C1_ExactlyOneSend ==
    \A c \in DispatchedChans :
        /\ ex[c].req.ID # GoNil
        /\ Len(ex[c].sends) = 1
        /\ ex[c].sends[1].op \in {"SendResponse", "SendError"}

\* A listing has failed and the failure has been sent.
C1_Witness ==
    \E c \in DispatchedChans :
        /\ ex[c].req.Method = "resources/list"
        /\ ~ex[c].returned.ok
        /\ ex[c].calls # <<>>
        /\ ex[c].sends[1].op = "SendError"

\* C2: every response written for a request with a non-null id has the id of
\* that request as it came on the wire, and exactly one of result and error.
C2_IdEchoed ==
    \A c \in Chans :
        (ex[c].decoded /\ ex[c].msg.id.t \notin {"absent", "null"}) =>
            \A i \in Responses(ex[c]) :
                /\ ex[c].out[i].body.id = ex[c].msg.id
                /\ ex[c].out[i].body.hasResult # ex[c].out[i].body.hasError

\* C3: a message with a null or absent id is never answered: no line on
\* stdio, no body on HTTP, whatever is wrong with the message.
C3_NullIdNeverAnswered ==
    \A c \in Chans :
        (ex[c].msg.shape = "object" /\ ex[c].msg.id.t \in {"absent", "null"}) =>
            Responses(ex[c]) = {}

\* C4: a decoded message with the right version and a nil id is dropped: it
\* does not reach the dispatcher, no external handler is invoked and no send
\* is made, for routed and for unknown methods.
C4_NotificationDropped ==
    \A c \in Chans :
        (ex[c].decoded /\ ex[c].req.JSONRPC = JSONRPCVersion /\ ex[c].req.ID = GoNil) =>
            /\ ~ex[c].dispatched
            /\ ex[c].calls = <<>>
            /\ ex[c].sends = <<>>

\* A notification of a routed method, with params its handler would accept,
\* has been handled.
C4_Witness ==
    \E c \in Chans :
        /\ ex[c].done /\ ex[c].decoded /\ ex[c].req.ID = GoNil
        /\ ex[c].req.JSONRPC = JSONRPCVersion
        /\ ex[c].req.Method = "tools/call"
        /\ ex[c].msg.params.name = JStr("green")

\* The handler each routed method has.
DedicatedHandler(method) ==
    CASE method = "initialize" -> "handleInitialize"
      [] method = "tools/list" -> "handleToolsList"
      [] method = "tools/call" -> "handleToolsCall"
      [] method = "resources/list" -> "handleResourcesList"
      [] method = "resources/read" -> "handleResourcesRead"
      [] method = "resources/templates/list" -> "handleResourceTemplatesList"
      [] method = "prompts/list" -> "handlePromptsList"
      [] method = "prompts/get" -> "handlePromptsGet"
      [] method = "ping" -> "handlePing"

\* C8: a routed method name reaches its own handler; any other name, case
\* variants included, is answered with one SendError carrying the request's
\* id, the code -32601 and a message that contains the name, and no external
\* handler is invoked.
C8_Routing ==
    \A c \in DispatchedChans :
        IF ex[c].req.Method \in RoutedMethods
        THEN ex[c].handler = DedicatedHandler(ex[c].req.Method)
        ELSE /\ ex[c].handler = "default"
             /\ ex[c].calls = <<>>
             /\ Len(ex[c].sends) = 1
             /\ ex[c].sends[1].op = "SendError"
             /\ ex[c].sends[1].id = ex[c].req.ID
             /\ ex[c].sends[1].code = -32601
             /\ \E k \in 1..Len(ex[c].sends[1].message) :
                   ex[c].sends[1].message[k] = ex[c].req.Method

\* A case variant of a routed name has been answered method-not-found.
C8_Witness ==
    \E c \in DispatchedChans :
        /\ ex[c].req.Method = "Ping"
        /\ ex[c].sends[1].code = ErrorCodeMethodNotFound
        /\ ex[c].req.ID = JNum("7")

\* The member a method requires of its params.
RequiredMember(method, params) == IF method = "resources/read" THEN params.uri ELSE params.name

\* params, as sent, is absent, is no object, or has no string where the
\* method requires one.
BadParams(method, params) ==
    \/ params.kind # "object"
    \/ RequiredMember(method, params).t # "string"

\* C9: tools/call, resources/read and prompts/get with such params are
\* answered with one SendError of code -32602, and the external handler is
\* not invoked.
C9_InvalidParams ==
    \A c \in DispatchedChans :
        (ex[c].req.Method \in ParamMethods /\ BadParams(ex[c].req.Method, ex[c].msg.params)) =>
            /\ ex[c].calls = <<>>
            /\ Len(ex[c].sends) = 1
            /\ ex[c].sends[1].op = "SendError"
            /\ ex[c].sends[1].code = -32602

\* resources/read has been dispatched with a uri that is no string.
C9_Witness ==
    \E c \in DispatchedChans :
        /\ ex[c].req.Method = "resources/read"
        /\ ex[c].msg.params.kind = "object"
        /\ ex[c].msg.params.uri = JNull
        /\ ex[c].sends[1].code = ErrorCodeInvalidParams

ListFns == {"ListTools", "ListResources", "ListResourceTemplates", "ListPrompts"}
CallFns == {"CallTool", "ReadResource", "GetPrompt"}

\* The key a list method wraps its result under; none for call/read/get.
WrapKey(fn) ==
    CASE fn = "ListTools" -> "tools"
      [] fn = "ListResources" -> "resources"
      [] fn = "ListResourceTemplates" -> "resourceTemplates"
      [] fn = "ListPrompts" -> "prompts"
      [] OTHER -> ""

\* C10: when the external handler was invoked, an error of a list handler is
\* sent as -32603 with the handler's message as data, an error of CallTool,
\* ReadResource or GetPrompt as -32602, and a success as a response whose
\* result is the handler's value, under the list's key or as it is.
C10_Classification ==
    \A c \in DispatchedChans :
        ex[c].calls # <<>> =>
            LET fn == ex[c].calls[1].fn
                o == ex[c].returned
                send == ex[c].sends[1]
            IN /\ Len(ex[c].calls) = 1
               /\ fn \in ListFns \cup CallFns
               /\ IF o.ok
                  THEN /\ send.op = "SendResponse"
                       /\ send.response.ID = ex[c].req.ID
                       /\ send.response.Result = [key |-> WrapKey(fn), val |-> o.val]
                       /\ send.response.Error = NilError
                  ELSE /\ send.op = "SendError"
                       /\ send.id = ex[c].req.ID
                       /\ IF fn \in ListFns
                          THEN send.code = -32603 /\ send.data = JStr(o.err)
                          ELSE send.code = -32602

\* CallTool has failed and the failure has been sent.
C10_Witness ==
    \E c \in DispatchedChans :
        /\ ex[c].calls # <<>>
        /\ ex[c].calls[1].fn = "CallTool"
        /\ ~ex[c].returned.ok
        /\ ex[c].sends[1].code = ErrorCodeInvalidParams

(***************************************************************************)
(* Properties of one HTTPResponseSender (SpecSender).                      *)
(***************************************************************************)
\* The calls that have returned.
Returned == {i \in Callers : caller[i].pc = "done"}

\* "At most one response is written per exchange".
AtMostOneWrite == Len(hs.out) <= 1

ExpectedFirst(hdr) ==
    IF hdr.lastEventID # <<>> /\ Atoi(hdr.lastEventID).ok
    THEN Atoi(hdr.lastEventID).n + 1
    ELSE 0

\* C6: the ids of the events a session has emitted are consecutive: each is
\* one greater than the one before it, with or without an event type, and
\* the first is 0, or Last-Event-ID + 1 for a resumed stream.
C6_ConsecutiveIds ==
    \A ref \in DOMAIN heap :
        LET stream == heap[ref].stream IN
        /\ stream # <<>> => stream[1].id = ExpectedFirst(opened[ref])
        /\ \A k \in 2..Len(stream) : stream[k].id = stream[k - 1].id + 1

\* A resumed session has emitted its connected event and then two events
\* without a type, and a send on it has failed in between.
C6_Witness ==
    \E ref \in DOMAIN heap :
        /\ Len(heap[ref].stream) >= 3
        /\ heap[ref].stream[1].id > 0
        /\ heap[ref].stream[1].event = "connected"
        /\ heap[ref].stream[2].event = ""
        /\ sendCount > Len(heap[ref].stream) - 1

\* C7: the first event of a stream has id N + 1 when the stream was opened
\* with a Last-Event-ID that parses as the integer N, whether or not an
\* Mcp-Session-Id came with it, and id 0 when Last-Event-ID is absent or does
\* not parse, whatever cursor an earlier session of the same id has reached.
C7_ResumeCursor ==
    \A ref \in DOMAIN heap :
        /\ heap[ref].eventID = ExpectedFirst(opened[ref]) + Len(heap[ref].stream)
        /\ heap[ref].stream # <<>> =>
              heap[ref].stream[1].id = ExpectedFirst(opened[ref])

\* A stream opened with a Last-Event-ID that does not parse has started at
\* 0 under a server-issued id and has emitted three events; a second stream
\* opened with that id and Last-Event-ID 1 has started at 2.
C7_Witness ==
    \E r1, r2 \in DOMAIN heap :
        /\ r1 < r2
        /\ opened[r1] = Headers(<<"1", "x">>, "")
        /\ heap[r1].stream[1].id = 0
        /\ heap[r1].eventID = 3
        /\ opened[r2] = Headers(<<"1">>, heap[r1].ID)
        /\ heap[r2].stream # <<>>
        /\ heap[r2].stream[1].id = 2

(***************************************************************************)
(* Further properties of the dispatcher and of the transports (Spec).      *)
(***************************************************************************)
\* C11: a dispatched ping invokes no external handler and makes one
\* SendResponse whose result is the empty object, and whatever is written
\* for it is a success response with that result and no error.
C11_PingSucceeds ==
    \A c \in DispatchedChans :
        ex[c].req.Method = "ping" =>
            /\ ex[c].calls = <<>>
            /\ Len(ex[c].sends) = 1
            /\ ex[c].sends[1].op = "SendResponse"
            /\ ex[c].sends[1].response.ID = ex[c].req.ID
            /\ ex[c].sends[1].response.Result = [key |-> "", val |-> "{}"]
            /\ ex[c].sends[1].response.Error = NilError
            /\ \A i \in Responses(ex[c]) :
                  /\ ex[c].out[i].body.hasResult
                  /\ ~ex[c].out[i].body.hasError
                  /\ ex[c].out[i].body.result.val = "{}"

\* A ping has been answered on an SSE stream.
C11_Witness ==
    \E c \in DispatchedChans :
        /\ ex[c].req.Method = "ping"
        /\ ex[c].done
        /\ \E i \in Responses(ex[c]) : ex[c].out[i].kind = "event"

\* The stdio lines that failed to decode into a request.
UndecodedLines ==
    {c \in Chans : /\ ex[c].transport = "stdio"
                   /\ ex[c].msg.shape \notin {"empty", "none"}
                   /\ ex[c].done
                   /\ ~ex[c].decoded}

\* The id sendParseError finds in a line: the id member as encoding/json
\* decodes it when the line is a JSON object with a non-null id, else -1.
RecoveredId(m) ==
    IF m.shape = "object" /\ m.id.t \notin {"absent", "null"}
    THEN EncodeAny(DecodeAny(m.id))
    ELSE JNum("-1")

\* C12: a non-empty stdio line that fails to decode is answered with exactly
\* one line, an error of code -32700 whose id is the recovered id or -1, and
\* nothing is dispatched for it.
C12_ParseErrorLine ==
    \A c \in UndecodedLines :
        /\ ~ex[c].dispatched
        /\ ex[c].calls = <<>>
        /\ ex[c].sends = <<>>
        /\ Len(ex[c].out) = 1
        /\ ex[c].out[1].kind = "line"
        /\ ex[c].out[1].hasBody
        /\ ex[c].out[1].body.hasError
        /\ ~ex[c].out[1].body.hasResult
        /\ ex[c].out[1].body.error.code = -32700
        /\ ex[c].out[1].body.id = RecoveredId(ex[c].msg)

\* A line whose method is a number and whose id is a string has been
\* answered with that id.
C12_Witness ==
    \E c \in UndecodedLines :
        /\ ex[c].msg.shape = "object"
        /\ ex[c].msg.id = JStr("a")
        /\ ex[c].out[1].body.id = JStr("a")

\* C13: the read loop ends only from its select, on the context, the error
\* channel or the closed input, never as the outcome of a line: the step that
\* takes a line leads to the line having been handled, whatever the line and
\* whatever its handling returned, and from there the loop reads again.
C13_LoopContinues ==
    [][/\ (stdio = "reading" /\ ex'[0] # ex[0]) => stdio' = "handled"
       /\ (stdio = "handled" /\ stdio' # stdio) => stdio' = "reading"
       /\ (stdio' = "exited" /\ stdio # "exited") =>
             (stdio = "reading" /\ ex'[0] = ex[0])]_vars

\* A line has been dispatched and the dispatch has returned an error (the
\* send failed), and the loop has not ended.
C13_Witness ==
    /\ stdio = "handled"
    /\ ex[0].dispatched
    /\ ex[0].ret # NoErr

\* C14: a decoded request with a non-null id and a jsonrpc tag other than
\* "2.0" does not reach the dispatcher, and is answered with an error of code
\* -32600 that carries its id, on stdio as on HTTP.
C14_InvalidVersionRejected ==
    \A c \in Chans :
        (/\ ex[c].done
         /\ ex[c].decoded
         /\ ex[c].req.JSONRPC # "2.0"
         /\ ex[c].req.ID # GoNil) =>
            /\ ~ex[c].dispatched
            /\ ex[c].calls = <<>>
            /\ \E i \in Responses(ex[c]) :
                  /\ ex[c].out[i].body.hasError
                  /\ ex[c].out[i].body.error.code = -32600
                  /\ ex[c].out[i].body.id = EncodeAny(ex[c].req.ID)

\* The POST requests of version "2.0" with an acceptable Accept header.
ValidPost(e) ==
    /\ e.transport = "http"
    /\ e.verb = "POST"
    /\ e.decoded
    /\ e.req.JSONRPC = "2.0"
    /\ (wantsJSON(e.accept) \/ wantsSSE(e.accept))

C17_StreamOrBody ==
    (/\ ValidPost(ex[1])
     /\ ex[1].req.ID # GoNil
     /\ conn[1].pc = "done"
     /\ stopPhase = "running") =>
        IF wantsSSE(ex[1].accept)
        THEN /\ conn[1].session \in DOMAIN heap
             /\ \E id \in DOMAIN sessions : sessions[id] = conn[1].session
             /\ opened[1].sessionID # "" =>
                   heap[conn[1].session].ID = opened[1].sessionID
             /\ Cardinality(Responses(ex[1])) = 1
             /\ \A i \in Responses(ex[1]) : ex[1].out[i].kind = "event"
        ELSE /\ Cardinality(Responses(ex[1])) = 1
             /\ \A i \in Responses(ex[1]) : ex[1].out[i].kind = "body"
             /\ conn[1].session = 0
             /\ heap = <<>>
             /\ DOMAIN sessions = {}

\* The session object ref is the value of an entry of the registry.
Registered(ref) == \E id \in DOMAIN sessions : sessions[id] = ref

\* C19: once the request that owns a session has ended (the GET handler was
\* released, the POST handler that opened the stream returned), the session
\* is out of the registry and marked closed, so that sendEvent on it fails
\* before writing.
C19_EndedSessionDestroyed ==
    \A c \in Conns :
        (conn[c].pc = "done" /\ conn[c].session \in DOMAIN heap) =>
            /\ ~Registered(conn[c].session)
            /\ heap[conn[c].session].closed

\* C24: a dispatched request whose per-request timeout expired before the
\* external handler returned is answered with an internal error (-32603).
C24_TimeoutIsInternalError ==
    \A c \in DispatchedChans :
        (/\ ex[c].done
         /\ ex[c].calls # <<>>
         /\ ex[c].returned = DeadlineExceeded
         /\ stopPhase = "running") =>
            \E i \in Responses(ex[c]) :
                /\ ex[c].out[i].body.hasError
                /\ ex[c].out[i].body.error.code = -32603

\* The exchanges whose send through the response sender failed: the
\* dispatcher handler returned the sender's error to the transport.
FailedSends == {c \in DispatchedChans : ex[c].done /\ ex[c].ret # NoErr}

\* C29 as stated: after a failed send the transport makes no further send
\* for the request and does not dispatch it again: the request was
\* dispatched once, one send was attempted, and nothing carrying a response
\* was written.
C29_FailedSendAbandoned ==
    \A c \in FailedSends :
        /\ Len(ex[c].calls) <= 1
        /\ Len(ex[c].sends) = 1
        /\ Responses(ex[c]) = {}

\* C29: after a failed send the request is not dispatched again and, on
\* stdio and on the JSON path of HTTP, nothing more is written for it; on the
\* SSE path the transport attempts one internal-error event (-32603, with the
\* request's id) on the session.
C29_FailedSendNotResubmitted ==
    \A c \in FailedSends :
        /\ Len(ex[c].calls) <= 1
        /\ Len(ex[c].sends) = 1
        /\ IF c \in Conns /\ conn[c].session # 0
           THEN /\ Cardinality(Responses(ex[c])) <= 1
                /\ \A i \in Responses(ex[c]) :
                      /\ ex[c].out[i].kind = "event"
                      /\ ex[c].out[i].body.hasError
                      /\ ex[c].out[i].body.error.code = -32603
                      /\ ex[c].out[i].body.id = EncodeAny(ex[c].req.ID)
           ELSE Responses(ex[c]) = {}

\* A send on the SSE path failed and the transport's internal-error event
\* was written to the stream.
C29_Witness ==
    \E c \in FailedSends :
        /\ c \in Conns
        /\ conn[c].session # 0
        /\ Cardinality(Responses(ex[c])) = 1

(***************************************************************************)
(* Properties of the HTTP transport serving several requests (SpecHTTP).   *)
(***************************************************************************)
\* The POST requests that were decoded and whose Accept header names neither
\* application/json nor text/event-stream.
NotAcceptable(e) ==
    /\ e.verb = "POST"
    /\ e.decoded
    /\ ~wantsJSON(e.accept)
    /\ ~wantsSSE(e.accept)

\* C15: a decodable POST whose Accept header names neither media type is
\* answered with one JSON error body of code -32600 and a 4xx status; the step
\* that handles it opens no session, leaves the registry as it was and invokes
\* no handler.
C15_NotAcceptable ==
    [][\A c \in Conns :
          (conn[c].pc = "idle" /\ ex'[c] # ex[c] /\ NotAcceptable(ex'[c])) =>
              /\ Len(ex'[c].out) = 1
              /\ ex'[c].out[1].kind = "body"
              /\ ex'[c].out[1].status \in 400..499
              /\ ex'[c].out[1].body.hasError
              /\ ex'[c].out[1].body.error.code = -32600
              /\ ~ex'[c].dispatched
              /\ ex'[c].calls = <<>>
              /\ ex'[c].done
              /\ conn'[c].pc = "done"
              /\ conn'[c].session = 0
              /\ sessions' = sessions
              /\ heap' = heap]_vars

\* A request with an unacceptable Accept header was answered while another
\* request's session was registered.
C15_Witness ==
    \E c \in Conns :
        /\ NotAcceptable(ex[c])
        /\ ex[c].done
        /\ ex[c].req.ID # GoNil
        /\ DOMAIN sessions # {}

\* The request that created the session object ref has not returned yet.
InProgress(ref) == \E c \in Conns : conn[c].session = ref /\ conn[c].pc # "done"

\* The stream of the session object ref is open and writable.
Writable(ref) == InProgress(ref) /\ ~heap[ref].closed

\* The ids of the sessions created so far.
SessionIDs == {heap[ref].ID : ref \in DOMAIN heap}

\* C20: in every state of the HTTP transport, a session id is in the registry
\* if and only if the stream of that session is open and writable: the
\* session a registered id stands for is writable, and no session whose id is
\* not registered is.
C20_RegisteredIffOpen ==
    \A id \in SessionIDs :
        IF id \in DOMAIN sessions
        THEN Writable(sessions[id])
        ELSE \A ref \in DOMAIN heap : heap[ref].ID = id => ~Writable(ref)

(***************************************************************************)
(* Properties of the GET streams (SpecGet).                                *)
(***************************************************************************)
\* C18: once the client of a blocked GET has disconnected, the handler
\* eventually returns and its session is no longer in the registry.
C18_DisconnectReleases ==
    \A c \in Conns :
        (conn[c].pc = "get_blocked" /\ conn[c].gone)
            ~> (conn[c].pc = "done" /\ ~Registered(conn[c].session))

\* Stop has returned, with or without the shutdown timeout having elapsed.
StopDone == stopPhase \in {"returned", "timedout"}

\* Some handler has not returned yet.
HandlersRunning == \E c \in Conns : conn[c].pc \notin {"idle", "done"}

\* C22: Stop first marks every registered session closed and clears the
\* registry, only then begins the shutdown of the listener, and returns from
\* it when no handler is running or else on the shutdown timeout; once the
\* root context is cancelled, Stop eventually has returned.
C22_StopSequence ==
    /\ [][stopPhase' # stopPhase =>
             \/ /\ stopPhase = "running" /\ stopPhase' = "closed"
                /\ DOMAIN sessions' = {}
                /\ \A ref \in DOMAIN heap : Registered(ref) => heap'[ref].closed
             \/ stopPhase = "closed" /\ stopPhase' = "shutdown"
             \/ stopPhase = "shutdown" /\ stopPhase' = "returned" /\ ~HandlersRunning
             \/ stopPhase = "shutdown" /\ stopPhase' = "timedout" /\ HandlersRunning]_vars
    /\ (cancelled ~> StopDone)

\* Stop has closed a session and returned on the timeout while the GET
\* handler of that session was still blocked.
C22_Witness ==
    /\ stopPhase = "timedout"
    /\ \E c \in Conns : /\ conn[c].pc = "get_blocked"
                        /\ heap[conn[c].session].closed
                        /\ ~Registered(conn[c].session)

(***************************************************************************)
(* Properties of the sessions (SpecSession).                               *)
(***************************************************************************)
\* C21: the step of Stop that closes the sessions leaves every session that
\* was open before it marked closed, so that sendEvent on it fails, and out
\* of the registry; this includes a session whose registry entry was replaced
\* by a later stream with the same id.
C21_StopClosesEverySession ==
    [][(stopPhase = "running" /\ stopPhase' = "closed") =>
          \A ref \in DOMAIN heap :
              /\ heap'[ref].closed
              /\ \A id \in DOMAIN sessions' : sessions'[id] # ref]_vars

\* The Response a send hands to sendEvent.
Payload(send) ==
    IF send.op = "SendResponse" THEN send.response
    ELSE Response(send.id, NilResult, ErrorResponse(send.code, send.message, send.data))

\* C27: a send that fails changes nothing: on a closed session, or with a
\* payload that cannot be encoded, the step of the send leaves every session
\* as it was (stream, cursor and closed flag); any other send appends one
\* event whose id is the cursor, and advances the cursor by one, so that the
\* send after a failed one uses the id the failed one would have used.
C27_FailedSendChangesNothing ==
    [][\A ref \in 1..MaxSessions, send \in StreamSends :
          SessionSend(ref, send) =>
              IF heap[ref].closed \/ ~CanMarshal(Payload(send))
              THEN heap' = heap
              ELSE /\ heap'[ref].stream =
                         Append(heap[ref].stream, [id |-> heap[ref].eventID, event |-> ""])
                   /\ heap'[ref].eventID = heap[ref].eventID + 1
                   /\ heap'[ref].closed = heap[ref].closed]_vars

\* Three sends were made on the one open session and one of them failed: the
\* stream holds the connected event and two events, with consecutive ids.
C27_Witness ==
    /\ Len(heap) = 1
    /\ ~heap[1].closed
    /\ sendCount = 3
    /\ Len(heap[1].stream) = 3
    /\ heap[1].stream[3].id = heap[1].stream[1].id + 2

\* C28 as stated: every send through the SSEResponseSender of a session
\* emits exactly one event on it and leaves its closed flag and the registry
\* unchanged.
C28_EverySendEmits ==
    [][\A ref \in 1..MaxSessions, send \in StreamSends :
          SessionSend(ref, send) =>
              /\ Len(heap'[ref].stream) = Len(heap[ref].stream) + 1
              /\ heap'[ref].closed = heap[ref].closed
              /\ sessions' = sessions]_vars

\* C28: a send through the SSEResponseSender of a session emits exactly one
\* event on it when the session is open and the payload can be encoded, and
\* none otherwise; it leaves the closed flag of the session, every other
\* session and the registry unchanged.
C28_SendEmitsOneEvent ==
    [][\A ref \in 1..MaxSessions, send \in StreamSends :
          SessionSend(ref, send) =>
              /\ Len(heap'[ref].stream) =
                    Len(heap[ref].stream)
                    + (IF ~heap[ref].closed /\ CanMarshal(Payload(send)) THEN 1 ELSE 0)
              /\ heap'[ref].closed = heap[ref].closed
              /\ \A other \in DOMAIN heap : other # ref => heap'[other] = heap[other]
              /\ sessions' = sessions]_vars

\* A registered, open session has carried its connected event and three
\* more events.
C28_Witness ==
    \E ref \in DOMAIN heap :
        /\ Registered(ref)
        /\ ~heap[ref].closed
        /\ Len(heap[ref].stream) = 4
        /\ heap[ref].stream[4].event = ""

(***************************************************************************)
(* Properties of the cancellation of the root context (SpecCancel).        *)
(***************************************************************************)
\* C23: once the root context is cancelled, the stdio read loop eventually
\* has exited, every blocked GET handler eventually has returned with its
\* session out of the registry, and Stop eventually shuts the listener down.
C23_CancelReachesAll ==
    /\ (cancelled /\ transport = "stdio") ~> (stdio = "exited")
    /\ \A c \in Conns :
          (cancelled /\ conn[c].pc = "get_blocked")
              ~> (conn[c].pc = "done" /\ ~Registered(conn[c].session))
    /\ (cancelled /\ transport = "http") ~> (stopPhase \notin {"running", "closed"})

\* After the cancellation a GET handler has returned and Stop has shut the
\* listener down.
C23_Witness ==
    /\ cancelled
    /\ stopPhase \notin {"running", "closed"}
    /\ \E c \in Conns : /\ ex[c].verb = "GET"
                        /\ conn[c].pc = "done"
                        /\ ~Registered(conn[c].session)

(***************************************************************************)
(* Properties of the locks (SpecLocks).                                    *)
(***************************************************************************)
\* The goroutine is inside sendEvent, between s.mu.Lock() and the unlock.
InSend(i) == thread[i].pc \in {"check", "id", "data", "incr", "unlock"}

\* C25: t.mu and the sessions' s.mu are different locks; a goroutine inside
\* sendEvent holds the s.mu of its session and not t.mu, be it the connected
\* event of startSSEStream or a send through a sender; the only goroutine
\* that ever holds t.mu and an s.mu together is Stop inside session.close().
C25_LocksNotNested ==
    \A i \in Callers :
        /\ InSend(i) => (smu[thread[i].ref] = i /\ tmu # i)
        /\ (tmu = i /\ \E ref \in 1..MaxSessions : smu[ref] = i) =>
               (thread[i].op = "stop" /\ thread[i].pc = "close")

\* The connected event of one stream is being written while another
\* goroutine holds the registry lock.
C25_Witness ==
    \E i, j \in Callers :
        /\ thread[i].op = "open"
        /\ thread[i].pc = "data"
        /\ tmu = j
        /\ j # i

\* The lines written to the writer of a session, without the headers set on it.
IsLine(x) == x.part # "header"
Frames(w) == SelectSeq(w, IsLine)

\* What the writer of a session received is a sequence of whole frames, the
\* last one possibly still being written: every id line is followed by the
\* rest of the frame of the same goroutine and event id.
WholeFrames(w) ==
    \A k \in 1..Len(w) :
        IF w[k].part = "id"
        THEN k < Len(w) =>
                 (w[k+1].part = "data" /\ w[k+1].thread = w[k].thread /\ w[k+1].id = w[k].id)
        ELSE k > 1 /\ w[k-1].part = "id" /\ w[k-1].thread = w[k].thread
                   /\ w[k-1].id = w[k].id

\* The event ids of the frames, in the order of the stream, go up by one.
IdsInOrder(w) ==
    \A k, l \in 1..Len(w) :
        (k < l /\ w[k].part = "id" /\ w[l].part = "id") => w[l].id = w[k].id + (l - k) \div 2

\* C26: sends on one session exclude each other: at most one goroutine is
\* inside sendEvent on a session, the frames of its stream are contiguous,
\* and their event ids are distinct and increase in the order of the stream.
C26_SendsSerialized ==
    /\ \A i, j \in Callers :
          (i # j /\ InSend(i) /\ InSend(j)) => thread[i].ref # thread[j].ref
    /\ \A ref \in 1..MaxSessions : WholeFrames(Frames(wire[ref])) /\ IdsInOrder(Frames(wire[ref]))

\* Two goroutines have sent on one session, one of them having waited for
\* the lock while the other was writing its frame.
C26_Witness ==
    \E i, j \in Callers :
        /\ i # j
        /\ thread[i].op = "send" /\ thread[j].op = "send"
        /\ thread[i].ref = thread[j].ref
        /\ thread[i].pc = "data"
        /\ thread[j].pc = "lock"
        /\ Len(wire[thread[i].ref]) >= 3

\* The goroutine that runs startSSEStream for session ref.
Opener(i, ref) == thread[i].op = "open" /\ thread[i].ref = ref

\* The session id startSSEStream chooses for a request with these headers.
ChosenID(id, hdr) ==
    IF hdr.sessionID # "" THEN id = hdr.sessionID
    ELSE \E n \in 1..MaxGenIds : id = sessionIDPrefix \o ToString(n)

\* C30: startSSEStream chooses the session id (the Mcp-Session-Id of the
\* request, else the fixed prefix and a number), registers the session,
\* sets the Mcp-Session-Id response header to that id and only then emits
\* the connected event: nothing reaches the writer before the session is
\* registered, the header comes first, the first frame is the connected
\* event carrying the session id with the session's first event id, and
\* every later frame is another event.
C30_OpeningOrder ==
    /\ \A ref \in DOMAIN heap :
          LET w == wire[ref] IN
          /\ ChosenID(heap[ref].ID, opened[ref])
          /\ \A i \in Callers :
                (Opener(i, ref) /\ thread[i].pc \in {"tlock", "register"}) => w = <<>>
          /\ \A k \in 1..Len(w) :
                /\ w[k].part = "header" <=> k = 1
                /\ k = 1 => (w[k].name = headerMCPSessionID /\ w[k].value = heap[ref].ID)
                /\ k = 2 => (w[k].part = "id" /\ w[k].id = heap[ref].first /\ Opener(w[k].thread, ref))
                /\ w[k].part = "data" =>
                      IF k = 3
                      THEN /\ w[k].event = "connected"
                           /\ w[k].data = [kind |-> "map", sessionId |-> heap[ref].ID]
                           /\ Opener(w[k].thread, ref)
                      ELSE w[k].event # "connected"
    /\ \A i \in Callers :
          (thread[i].op = "open" /\ thread[i].pc = "header" /\ stopPhase = "running"
              /\ \A ref \in DOMAIN heap : heap[ref].ID = heap[thread[i].ref].ID => ref = thread[i].ref)
          => (heap[thread[i].ref].ID \in DOMAIN sessions
              /\ sessions[heap[thread[i].ref].ID] = thread[i].ref)

\* A stream was opened for a request with an Mcp-Session-Id, its connected
\* event is on the wire, and a sender has since emitted another event on it.
C30_Witness ==
    \E ref \in DOMAIN heap :
        /\ opened[ref].sessionID # ""
        /\ Len(wire[ref]) >= 5
        /\ wire[ref][3].event = "connected"
        /\ wire[ref][5].event = ""

(***************************************************************************)
(* Further properties of the HTTP transport serving several requests       *)
(* (SpecHTTP).                                                             *)
(***************************************************************************)
\* The requests that came as GET /mcp.
Gets == {c \in Conns : ex[c].verb = "GET"}

\* C31: a GET /mcp never reaches the dispatcher or an external handler: no
\* request is decoded or dispatched for it, no handler is called, no send is
\* made through a sender, and the only event written to the client and to
\* the stream of its session is the connected event, once at most.
C31_GetNeverDispatches ==
    \A c \in Gets :
        /\ ~ex[c].decoded
        /\ ~ex[c].dispatched
        /\ ex[c].handler = ""
        /\ ex[c].calls = <<>>
        /\ ex[c].sends = <<>>
        /\ Len(ex[c].out) <= 1
        /\ \A i \in 1..Len(ex[c].out) :
              /\ ex[c].out[i].kind = "event"
              /\ ex[c].out[i].eventType = "connected"
              /\ ~ex[c].out[i].hasBody
        /\ conn[c].session \in DOMAIN heap =>
              /\ Len(heap[conn[c].session].stream) <= 1
              /\ \A k \in 1..Len(heap[conn[c].session].stream) :
                    heap[conn[c].session].stream[k].event = "connected"

\* A GET has returned after its connected event while a POST on another
\* connection was dispatched.
C31_Witness ==
    \E c \in Gets, d \in Conns :
        /\ conn[c].pc = "done"
        /\ Len(ex[c].out) = 1
        /\ ex[d].verb = "POST"
        /\ ex[d].dispatched

(***************************************************************************)
(* Properties of Transport.Start (SpecStart).                              *)
(***************************************************************************)
\* Start has returned: the loop of Stdio.Start has, or t.Stop() has.
StartReturned ==
    IF transport = "stdio" THEN loop.pc = "returned" ELSE StopDone

\* The transport has hit a fatal error: the scanner has failed on the input,
\* or the listener has failed to start.
FatalError ==
    IF transport = "stdio" THEN reader.pc = "err" ELSE listener = "failed"

\* C32: Start returns once the context is cancelled, and returns once its
\* transport has hit a fatal error, with that error unless the context was
\* cancelled as well.
C32_StartReturns ==
    /\ cancelled ~> StartReturned
    /\ FatalError ~> StartReturned
    /\ [](loop.ret = "error" => stdin.end = "error")

(***************************************************************************)
(* Properties of NewMCPServer (SpecServer).                                *)
(***************************************************************************)
\* One of the three handler arguments is nil.
SomeHandlerNil ==
    NilHandler \in {server.tool, server.resource, server.prompt}

\* C33: NewMCPServer returns an error and no server if and only if one of
\* the tool, resource and prompt handlers is nil; with the three of them
\* non-nil it returns a server and no error, whatever the options.
C33_ErrorIffNilHandler ==
    server.made =>
        /\ ~server.out.panic
        /\ IF SomeHandlerNil
           THEN server.out.err # NoErr /\ server.out.srv = NoServer
           ELSE server.out.err = NoErr /\ server.out.srv # NoServer

\* The value the options give to a field of the configuration: that of the
\* last option for the field, or else the default stated for it.
Defaults ==
    [requestTimeout |-> 30, shutdownTimeout |-> 5, readTimeout |-> 30,
     writeTimeout |-> 30, idleTimeout |-> 120, logLevel |-> "info", logJSON |-> FALSE,
     customLogger |-> NilLogger]
OptionsFor(f) == {k \in 1..Len(server.opts) : server.opts[k].field = f}
LastFor(f) ==
    IF OptionsFor(f) = {} THEN Defaults[f]
    ELSE server.opts[CHOOSE k \in OptionsFor(f) : \A l \in OptionsFor(f) : l <= k].value

\* C34: the server NewMCPServer returns holds the handlers it was given and,
\* for each field of its configuration, the value of the last option given
\* for the field, or else the default (request timeout 30s, shutdown
\* timeout 5s, log level info, JSON logging off); its logger is the one
\* given by WithLogger, or else a default logger made from the configured
\* level and format.
C34_LastOptionWins ==
    (server.made /\ server.out.srv # NoServer) =>
        /\ server.out.srv.tool = server.tool
        /\ server.out.srv.resource = server.resource
        /\ server.out.srv.prompt = server.prompt
        /\ \A f \in DOMAIN Defaults : server.out.srv.config[f] = LastFor(f)
        /\ server.out.srv.logger =
              IF LastFor("customLogger") # NilLogger THEN LastFor("customLogger")
              ELSE Logger("default", LastFor("logLevel"), LastFor("logJSON"))

\* A server was built from two options for the same field with different
\* values.
C34_Witness ==
    /\ server.made
    /\ server.out.srv # NoServer
    /\ Len(server.opts) = 2
    /\ server.opts[1].field = server.opts[2].field
    /\ server.opts[1].value # server.opts[2].value

(***************************************************************************)
(* Further properties of the HTTP transport serving one request (Spec).    *)
(***************************************************************************)
\* The request of connection 1 went down the JSON path of handlePost: a
\* valid POST with a non-null id whose Accept does not name
\* text/event-stream, handled to its end.
JSONPath ==
    /\ ValidPost(ex[1])
    /\ ex[1].req.ID # GoNil
    /\ ~wantsSSE(ex[1].accept)
    /\ ex[1].done

\* C35: on the JSON path every valid request with a non-null id gets exactly
\* one HTTP response body: the response the dispatcher sent through the
\* HTTPResponseSender, with status 200, or else one internal-error body
\* written by the transport; no body follows a write of the sender.
C35_ExactlyOneBody ==
    JSONPath =>
        /\ Cardinality(Responses(ex[1])) = 1
        /\ \A i \in Responses(ex[1]) :
              /\ ex[1].out[i].kind = "body"
              /\ IF ex[1].sends # <<>>
                 THEN ex[1].out[i].status = StatusOK
                 ELSE /\ ex[1].out[i].status = StatusBadRequest
                      /\ ex[1].out[i].body.hasError
                      /\ ex[1].out[i].body.error.code = -32603
        /\ ex[1].sends # <<>> => Len(ex[1].out) <= 2

\* C36: the session of an SSE-promoted POST carries the connected event,
\* with the id k the session started from, followed by at most one event
\* with a response or an error for the request, with id k + 1: whether the
\* dispatcher's send succeeded, or failed and the transport sent its
\* internal error, no request has two response events.
C36_OneResponseEvent ==
    (ex[1].verb = "POST" /\ conn[1].session \in DOMAIN heap) =>
        LET s == heap[conn[1].session]
            k == s.first
        IN /\ Len(s.stream) <= 2
           /\ Len(s.stream) >= 1 => s.stream[1] = [id |-> k, event |-> "connected"]
           /\ Len(s.stream) = 2 => s.stream[2] = [id |-> k + 1, event |-> ""]
           /\ Cardinality(Responses(ex[1])) <= 1
           /\ Len(ex[1].out) = Len(s.stream)
           /\ \A i \in 1..Len(ex[1].out) :
                 /\ ex[1].out[i].kind = "event"
                 /\ ex[1].out[i].eventID = s.stream[i].id
                 /\ ex[1].out[i].hasBody <=> i = 2

\* The dispatcher's send failed on a resumed stream, and the internal error
\* of the transport is the one response event, after the connected event.
C36_Witness ==
    /\ ex[1].verb = "POST"
    /\ conn[1].pc = "done"
    /\ conn[1].session \in DOMAIN heap
    /\ ex[1].ret # NoErr
    /\ heap[conn[1].session].first > 0
    /\ Len(heap[conn[1].session].stream) = 2

(***************************************************************************)
(* Further properties of the GET streams (SpecGet).                        *)
(***************************************************************************)
\* The session objects opened with the id, in the order they were opened.
OpenedWith(id) == {ref \in DOMAIN heap : heap[ref].ID = id}

\* C37: the registry holds, under an id, the session opened last with that
\* id, and the step in which a GET handler returns takes out of the registry
\* the entry of its own session only: the entry of any other session, one
\* opened later with the same id included, stays.
C37_CleanupRemovesOwnEntry ==
    /\ [](\A id \in DOMAIN sessions :
             /\ sessions[id] \in OpenedWith(id)
             /\ \A ref \in OpenedWith(id) : ref <= sessions[id])
    /\ [][\A c \in Conns :
             (conn[c].pc = "get_blocked" /\ conn'[c].pc = "done") =>
                 \A id \in DOMAIN sessions :
                     sessions[id] # conn[c].session =>
                         (id \in DOMAIN sessions' /\ sessions'[id] = sessions[id])]_vars

\* C38: once Stop has closed the sessions and replaced the registry, the
\* registry is empty and stays so, and every session is closed: no stream
\* opened while Stop runs or after it is left registered and open.
C38_NothingOpenAfterStop ==
    stopPhase # "running" =>
        /\ DOMAIN sessions = {}
        /\ \A ref \in DOMAIN heap : heap[ref].closed

(***************************************************************************)
(* Properties of the locks under fair scheduling (SpecLocksFair).          *)
(***************************************************************************)
\* The goroutine is waiting for t.mu or for the s.mu of a session.
WaitsRegistryLock(i) == thread[i].pc = "tlock"
WaitsSessionLock(i) ==
    \/ thread[i].pc = "lock"
    \/ thread[i].pc = "closing" /\ \E id \in DOMAIN sessions : ~heap[sessions[id]].closed
HoldsSessionLock(i) == \E ref \in 1..MaxSessions : smu[ref] = i

\* C39: the locks cannot deadlock.  A goroutine holding the lock of a
\* session never waits for t.mu, and the only one that holds both is Stop,
\* which took t.mu first; in the end every goroutine that has started
\* (Stop, a stream open, a GET cleanup, a send) has got the locks it waited
\* for and has finished.
C39_NoLockDeadlock ==
    /\ [](\A i \in Callers :
             HoldsSessionLock(i) =>
                 /\ ~WaitsRegistryLock(i)
                 /\ tmu = i => (thread[i].op = "stop" /\ thread[i].pc = "close"))
    /\ <>[](\A i \in Callers : thread[i].pc \in {"idle", "done"})

\* Stop holds t.mu and waits for the lock of a session that a send holds
\* while it writes.
C39_Witness ==
    \E i, j \in Callers :
        /\ thread[i].op = "stop" /\ tmu = i /\ WaitsSessionLock(i)
        /\ thread[j].op = "send" /\ thread[j].pc = "data" /\ HoldsSessionLock(j)
        /\ ~heap[thread[j].ref].closed /\ \E id \in DOMAIN sessions : sessions[id] = thread[j].ref

(***************************************************************************)
(* Properties of the stdio loop (SpecStart).                               *)
(***************************************************************************)
\* The non-empty lines of the input among the first k, and the lines whose
\* handling is among the first i recorded.
NonEmptyLines(k) == {n \in 1..k : stdin.lines[n] # EmptyLine}
HandledLines(i) == {loop.log[j].n : j \in 1..i}

\* C40: on stdio the lines are handled one at a time in the order of the
\* input: what has been handled, and written, before a line is exactly the
\* non-empty lines before it; while a line is handled the next one has at
\* most been scanned, never taken; the output of each handling is that of
\* the line that caused it; and when Start returns at the end of the input
\* without cancellation every non-empty line has been handled.
C40_LinesInOrder ==
    /\ transport = "stdio" =>
          /\ \A i \in 1..Len(loop.log) :
                /\ HandledLines(i - 1) = NonEmptyLines(loop.log[i].n - 1)
                /\ loop.log[i].n \in NonEmptyLines(Len(stdin.lines))
                /\ \E o \in FewOutcomes :
                      loop.log[i].out = handleMessage(stdin.lines[loop.log[i].n], o).out
          /\ loop.pc = "handle" =>
                /\ HandledLines(Len(loop.log)) = NonEmptyLines(loop.n - 1)
                /\ stdin.pos <= loop.n + 1
                /\ reader.pc = "send" => reader.n = loop.n + 1
          /\ (loop.pc = "returned" /\ ~cancelled /\ stdin.end = "eof") =>
                HandledLines(Len(loop.log)) = NonEmptyLines(Len(stdin.lines))

\* Start has returned at the end of an input of MaxLines lines, all handled,
\* without cancellation.
C40_Witness ==
    /\ transport = "stdio"
    /\ loop.pc = "returned" /\ ~cancelled /\ stdin.end = "eof"
    /\ Len(loop.log) = MaxLines

=============================================================================
